---- MODULE Spec2Model ----
(***************************************************************************)
(* Camp snack bar POS: the account ledger of backend/app.py.               *)
(*                                                                         *)
(* Request handlers run concurrently, each on its own SQLite connection    *)
(* (get_db).  A handler is modelled statement by statement; the database   *)
(* file is `db`, a connection's uncommitted pages are `work`, and `lock`   *)
(* is the SQLite file lock the connection holds (rollback-journal mode:    *)
(* NONE < SHARED < RESERVED < PENDING, EXCLUSIVE only inside the commit    *)
(* step).  Money is counted in whole currency units.  A lock wait is a     *)
(* disabled action: the 30 s busy timeout of get_db is not modelled.       *)
(* `clock` is the wall clock in whole seconds, the resolution of SQLite's  *)
(* datetime('now') and CURRENT_TIMESTAMP; it never runs backwards.         *)
(***************************************************************************)
EXTENDS Integers, Sequences, FiniteSets, TLC

VARIABLES db, lock, work, pc, cur, loc, hist, events, clock

vars == <<db, lock, work, pc, cur, loc, hist, events, clock>>

(***************************************************************************)
(* Bounds                                                                  *)
(***************************************************************************)
Procs == {"h1", "h2"}

MaxReqs == 3

NoId == 0

MaxClock == 1

\* completed_at TIMESTAMP of a row that was never completed (NULL)
NoTime == -1

\* request.args.get('limit', 100, type=int)
HistoryLimit == 100

NoWork == [none |-> TRUE]

(***************************************************************************)
(* Database contents                                                       *)
(***************************************************************************)
\* f"A{next_num:03d}": the letter A and the number; SUBSTR(account_number, 2)
\* cast to INTEGER gives the number back, LIKE 'A%' tests the letter
AccountNumber(next_num) == [prefix |-> "A", num |-> next_num]

InitAccounts ==
    (1 :> [account_number |-> AccountNumber(1), account_name |-> "acct1"]) @@
    (2 :> [account_number |-> AccountNumber(2), account_name |-> "acct2"])

InitProducts ==
    (1 :> [name |-> "burger", price |-> 3, requires_prep |-> TRUE,
           track_inventory |-> TRUE, inventory_quantity |-> 2]) @@
    (2 :> [name |-> "candy", price |-> 2, requires_prep |-> FALSE,
           track_inventory |-> FALSE, inventory_quantity |-> 0])

\* the default users of migrations/add_rbac.py
InitUsers ==
    (1 :> [username |-> "admin", role |-> "admin", is_active |-> TRUE]) @@
    (2 :> [username |-> "pos", role |-> "pos", is_active |-> TRUE])

InitDb ==
    [accounts |-> InitAccounts,
     users |-> InitUsers,
     sqlite_sequence |-> [accounts |-> 2],
     products |-> InitProducts,
     transactions |-> << >>,
     transaction_items |-> << >>,
     prep_queue |-> << >>]

(***************************************************************************)
(* Pure helpers                                                            *)
(***************************************************************************)
\* variant: the amount is taken with the sign the client sent
Abs_signed(x) == x

\* abs()
Abs(x) == IF x < 0 THEN -x ELSE x

RECURSIVE SumAmounts(_, _)
SumAmounts(rows, acct) ==
    IF rows = << >> THEN 0
    ELSE (IF Head(rows).account_id = acct THEN Head(rows).total_amount ELSE 0)
         + SumAmounts(Tail(rows), acct)

HasRows(rows, acct) == \E k \in 1..Len(rows) : rows[k].account_id = acct

RECURSIVE SumAll(_)
SumAll(rows) ==
    IF rows = << >> THEN 0 ELSE Head(rows).total_amount + SumAll(Tail(rows))

\* variant: the WHERE account_id = ? clause is missing
calculate_account_balance_all(d, account_id) == SumAll(d.transactions)

\* SELECT SUM(total_amount) FROM transactions WHERE account_id = ? ; NULL -> 0.0
calculate_account_balance(d, account_id) ==
    IF HasRows(d.transactions, account_id)
    THEN SumAmounts(d.transactions, account_id)
    ELSE 0

\* TransactionSchema: account_id >= 1, transaction_type one of three,
\* `amount` (when present) within +-10000.  total_amount is not a field of
\* the schema (unknown = EXCLUDE) and is read unvalidated by the handler.
TransactionSchema(data) ==
    /\ data.account_id >= 1
    /\ data.transaction_type \in {"purchase", "payment", "adjustment"}
    /\ data.has_amount => (data.amount >= -10000 /\ data.amount <= 10000)

(***************************************************************************)
(* SQLite locking                                                          *)
(***************************************************************************)
Others(p) == Procs \ {p}

\* a SHARED lock is refused while another connection holds PENDING
CanShared(p) == \A q \in Others(p) : lock[q] # "PENDING"

\* a RESERVED lock is refused while another connection holds one
WriterElsewhere(p) == \E q \in Others(p) : lock[q] \in {"RESERVED", "PENDING"}

\* variant: no BEGIN, every SELECT runs in autocommit and drops its lock
LockAfterRead_autocommit(l) == l

\* line 736, conn.execute("BEGIN"): inside the transaction a SELECT leaves
\* the SHARED lock held until commit or rollback
LockAfterRead(l) == IF l = "NONE" THEN "SHARED" ELSE l

\* what the connection of p reads: its own uncommitted pages once it writes
View(p) == IF lock[p] \in {"RESERVED", "PENDING"} THEN work[p] ELSE db

Data(p) == hist[cur[p]].data

InitLoc == [total_amount |-> 0, transaction_id |-> NoId, i |-> 1,
            new_balance |-> 0, error |-> "", after |-> ""]

\* requests being handled at this moment
InFlight == {cur[q] : q \in Procs} \ {0}

\* the server hands a request to the first handler that is free; handlers
\* are interchangeable, each request opens its own connection
Dispatch(p) == pc[p] = "idle" /\ (p = "h1" \/ pc["h1"] # "idle")

\* one entry per request: the request, its response, and bookkeeping that
\* the properties refer to (persisted, pre_balance, pre, seen, orig_state,
\* overlaps, at are not program state); items is the listing a prep-queue
\* read returns
NewEntry(data) ==
    [data |-> data, status |-> 0, error |-> "", transaction_id |-> NoId,
     total_amount |-> 0, balance_after |-> 0, persisted |-> FALSE,
     pre_balance |-> 0, pre |-> InitDb, seen |-> InitDb, orig_state |-> "none",
     overlaps |-> InFlight, items |-> << >>, at |-> NoTime]

Raise(p, err) ==
    /\ pc' = [pc EXCEPT ![p] = "except"]
    /\ loc' = [loc EXCEPT ![p].error = err]


\* ghost bookkeeping: the ledger sum as the specification defines it
RECURSIVE Sigma(_, _, _)
Sigma(rows, acct, n) ==
    IF n = 0 THEN 0
    ELSE Sigma(rows, acct, n - 1)
         + (IF rows[n].account_id = acct THEN rows[n].total_amount ELSE 0)

LedgerSum(rows, acct) == Sigma(rows, acct, Len(rows))

(***************************************************************************)
(* create_transaction  (app.py 728-872)                                    *)
(***************************************************************************)
HasOriginal(data) == data.original_transaction_id # NoId

RowExists(rows, id) == id \in 1..Len(rows)

\* variant: the has_been_adjusted check is missing
AlreadyAdjusted_unchecked(rows, id) == FALSE

\* line 774: orig_row and orig_row['has_been_adjusted']
AlreadyAdjusted(rows, id) == RowExists(rows, id) /\ rows[id].has_been_adjusted

\* lines 733-763 up to the first statement that touches the database
CT_Begin(p, data) ==
    /\ Dispatch(p)
    /\ Len(hist) < MaxReqs
    /\ LET u == Len(hist) + 1
           e == [NewEntry(data) EXCEPT !.orig_state =
                    IF data.original_transaction_id \notin 1..Len(db.transactions)
                    THEN "none"
                    ELSE IF db.transactions[data.original_transaction_id].has_been_adjusted
                         THEN "adjusted" ELSE "open"]
       IN IF ~TransactionSchema(data)
          THEN /\ hist' = Append(hist, [e EXCEPT !.status = 400,
                                                 !.error = "Validation failed"])
               /\ UNCHANGED <<pc, cur, loc>>
          ELSE /\ hist' = Append(hist, e)
               /\ cur' = [cur EXCEPT ![p] = u]
               /\ loc' = [loc EXCEPT ![p] =
                    [InitLoc EXCEPT
                       !.total_amount =
                          CASE data.transaction_type = "payment" -> Abs(data.total_amount)
                            [] data.transaction_type = "adjustment" -> data.total_amount
                            [] OTHER -> 0]]
               /\ pc' = [pc EXCEPT ![p] =
                    CASE data.transaction_type = "purchase" /\ data.items # << >> -> "calc"
                      [] data.transaction_type = "adjustment" /\ HasOriginal(data) -> "check"
                      [] OTHER -> "insert"]
    /\ UNCHANGED <<db, lock, work, events, clock>>

\* lines 769-775: SELECT has_been_adjusted; the first read takes the SHARED lock
CT_CheckOriginal(p) ==
    /\ pc[p] = "check"
    /\ lock[p] # "NONE" \/ CanShared(p)
    /\ lock' = [lock EXCEPT ![p] = LockAfterRead(@)]
    /\ IF AlreadyAdjusted(View(p).transactions, Data(p).original_transaction_id)
       THEN Raise(p, "AlreadyAdjusted")
       ELSE pc' = [pc EXCEPT ![p] = "insert"] /\ UNCHANGED loc
    /\ UNCHANGED <<db, work, cur, hist, events, clock>>

\* line 743: current_user.id of the session that sends the request
CurrentUser == 1

\* lines 778-782: the INSERT; created_at is the column default
\* CURRENT_TIMESTAMP (original and request are bookkeeping, not columns)
NewTransactionRow(data, total_amount, u) ==
    [account_id |-> data.account_id,
     transaction_type |-> data.transaction_type,
     total_amount |-> total_amount,
     notes |-> data.notes,
     has_been_adjusted |-> FALSE,
     created_by |-> CurrentUser,
     created_at |-> clock,
     original |-> IF data.transaction_type = "adjustment"
                  THEN data.original_transaction_id ELSE NoId,
     request |-> u]

\* variant: a purchase commits right after the ledger INSERT and adds its
\* line items in a second transaction
AfterInsert_early(data) ==
    IF data.transaction_type = "purchase" /\ data.items # << >>
    THEN [pc |-> "commit", after |-> "items"]
    ELSE [pc |-> IF data.transaction_type = "adjustment" /\ HasOriginal(data)
                 THEN "mark" ELSE "commit",
          after |-> "balance"]

\* variant: the notification is sent before the commit
AfterInsert_notify_first(data) == [pc |-> "emit", after |-> "balance"]

\* where the handler goes after the INSERT (lines 787, 809) and after the
\* single conn.commit() of line 844
AfterInsert(data) ==
    [pc |-> CASE data.transaction_type = "adjustment" /\ HasOriginal(data) -> "mark"
              [] data.transaction_type = "purchase" /\ data.items # << >> -> "items"
              [] OTHER -> "commit",
     after |-> "balance"]

\* lines 778-784: INSERT INTO transactions, the first write of the handler.
\* A connection that already holds SHARED gets SQLITE_BUSY at once when
\* another holds RESERVED; one that holds nothing waits for it.
CT_InsertTransaction(p) ==
    /\ pc[p] = "insert"
    /\ lock[p] = "NONE" => ~WriterElsewhere(p) /\ CanShared(p)
    /\ IF lock[p] = "SHARED" /\ WriterElsewhere(p)
       THEN /\ Raise(p, "database is locked")
            /\ UNCHANGED <<lock, work>>
       ELSE LET base == View(p)
                data == Data(p)
                id   == Len(base.transactions) + 1
            IN IF data.account_id \notin DOMAIN base.accounts
               THEN /\ Raise(p, "FOREIGN KEY constraint failed")
                    /\ lock' = [lock EXCEPT ![p] = "RESERVED"]
                    /\ work' = [work EXCEPT ![p] = base]
               ELSE /\ lock' = [lock EXCEPT ![p] = "RESERVED"]
                    /\ work' = [work EXCEPT ![p] =
                          [base EXCEPT !.transactions =
                              Append(@, NewTransactionRow(data, loc[p].total_amount, cur[p]))]]
                    /\ loc' = [loc EXCEPT ![p].transaction_id = id,
                                           ![p].after = AfterInsert(data).after]
                    /\ pc' = [pc EXCEPT ![p] = AfterInsert(data).pc]
    /\ UNCHANGED <<db, cur, hist, events, clock>>

\* variant: the refund also voids the amount of the original
MarkOriginal_void(rows, original_id, transaction_id) ==
    IF RowExists(rows, original_id)
    THEN [rows EXCEPT ![original_id].has_been_adjusted = TRUE,
                      ![original_id].total_amount = 0,
                      ![original_id].notes =
                          Append(@, [adjusted_by |-> transaction_id])]
    ELSE rows

\* variant: the reference replaces the notes of the original
MarkOriginal_overwrite(rows, original_id, transaction_id) ==
    IF RowExists(rows, original_id)
    THEN [rows EXCEPT ![original_id].has_been_adjusted = TRUE,
                      ![original_id].notes = <<[adjusted_by |-> transaction_id]>>]
    ELSE rows

\* lines 791-806: UPDATE transactions SET has_been_adjusted = 1, notes = ?
\* WHERE id = ? with the notes read just before and the reference
\* "Adjusted by transaction #id" appended  (no row: nothing changes)
MarkOriginal(rows, original_id, transaction_id) ==
    IF RowExists(rows, original_id)
    THEN [rows EXCEPT ![original_id].has_been_adjusted = TRUE,
                      ![original_id].notes =
                          Append(@, [adjusted_by |-> transaction_id])]
    ELSE rows

\* lines 787-806: read the original's notes, append the reference, set the flag
CT_MarkOriginal(p) ==
    /\ pc[p] = "mark"
    /\ work' = [work EXCEPT ![p].transactions =
                    MarkOriginal(@, Data(p).original_transaction_id,
                                 loc[p].transaction_id)]
    /\ pc' = [pc EXCEPT ![p] = "commit"]
    /\ UNCHANGED <<db, lock, cur, loc, hist, events, clock>>

(***************************************************************************)
(* conn.commit(): RESERVED -> PENDING, then EXCLUSIVE once the readers     *)
(* have gone; the pages reach the file and the lock is dropped.            *)
(***************************************************************************)
Commit(p) ==
    /\ pc[p] = "commit"
    /\ lock' = [lock EXCEPT ![p] = "PENDING"]
    /\ pc' = [pc EXCEPT ![p] = "commit2"]
    /\ UNCHANGED <<db, work, cur, loc, hist, events, clock>>

CommitExclusive(p) ==
    /\ pc[p] = "commit2"
    /\ \A q \in Others(p) : lock[q] = "NONE"
    /\ db' = work[p]
    /\ work' = [work EXCEPT ![p] = NoWork]
    /\ lock' = [lock EXCEPT ![p] = "NONE"]
    /\ pc' = [pc EXCEPT ![p] = loc[p].after]
    /\ hist' = [hist EXCEPT ![cur[p]].persisted = @ \/ (work[p] # db),
                            ![cur[p]].pre = db,
                            ![cur[p]].pre_balance =
                                IF Data(p).kind = "transaction"
                                THEN LedgerSum(db.transactions, Data(p).account_id)
                                ELSE 0]
    /\ UNCHANGED <<cur, loc, events, clock>>

\* line 847: calculate_account_balance on the same connection, after the commit
CT_NewBalance(p) ==
    /\ pc[p] = "balance"
    /\ CanShared(p)
    /\ loc' = [loc EXCEPT ![p].new_balance =
                  calculate_account_balance(db, Data(p).account_id)]
    /\ hist' = [hist EXCEPT ![cur[p]].seen = db]
    /\ pc' = [pc EXCEPT ![p] = "emit"]
    /\ UNCHANGED <<db, lock, work, cur, events, clock>>

\* lines 850-855: the payload of the event (request: which call sent it,
\* not part of the payload)
TransactionCreated(p) ==
    [name |-> "transaction_created",
     transaction_id |-> loc[p].transaction_id,
     account_id |-> Data(p).account_id,
     total_amount |-> loc[p].total_amount,
     balance_after |-> loc[p].new_balance,
     request |-> cur[p]]

\* lines 850-865: socketio.emit('transaction_created') and the 201 response
CT_Emit(p) ==
    /\ pc[p] = "emit"
    /\ events' = Append(events, TransactionCreated(p))
    /\ hist' = [hist EXCEPT ![cur[p]].status = 201,
                            ![cur[p]].transaction_id = loc[p].transaction_id,
                            ![cur[p]].total_amount = loc[p].total_amount,
                            ![cur[p]].balance_after = loc[p].new_balance]
    /\ pc' = [pc EXCEPT ![p] = "idle"]
    /\ cur' = [cur EXCEPT ![p] = 0]
    /\ loc' = [loc EXCEPT ![p] = InitLoc]
    /\ UNCHANGED <<db, lock, work, clock>>

\* line 850 raising: socketio.emit sits inside the try block, after the
\* commit, so its exception reaches the handler of line 867
CT_EmitFails(p) ==
    /\ pc[p] = "emit"
    /\ Raise(p, "emit failed")
    /\ UNCHANGED <<db, lock, work, cur, hist, events, clock>>

\* lines 867-872: conn.rollback(), the 500 response, conn.close()
CT_Except(p) ==
    /\ pc[p] = "except"
    /\ lock' = [lock EXCEPT ![p] = "NONE"]
    /\ work' = [work EXCEPT ![p] = NoWork]
    /\ hist' = [hist EXCEPT ![cur[p]].status = 500,
                            ![cur[p]].error = loc[p].error]
    /\ pc' = [pc EXCEPT ![p] = "idle"]
    /\ cur' = [cur EXCEPT ![p] = 0]
    /\ loc' = [loc EXCEPT ![p] = InitLoc]
    /\ UNCHANGED <<db, events, clock>>

(***************************************************************************)
(* get_account  (app.py 244-280): three autocommit reads                   *)
(***************************************************************************)
GA_Begin(p, account_id) ==
    /\ Dispatch(p)
    /\ Len(hist) < MaxReqs
    /\ CanShared(p)
    /\ LET data == [kind |-> "get_account", account_id |-> account_id]
       IN IF account_id \notin DOMAIN db.accounts
          THEN /\ hist' = Append(hist, [NewEntry(data) EXCEPT !.status = 404,
                                            !.error = "Account not found"])
               /\ UNCHANGED <<pc, cur, loc>>
          ELSE /\ hist' = Append(hist, NewEntry(data))
               /\ cur' = [cur EXCEPT ![p] = Len(hist) + 1]
               /\ loc' = [loc EXCEPT ![p] = InitLoc]
               /\ pc' = [pc EXCEPT ![p] = "ga_balance"]
    /\ UNCHANGED <<db, lock, work, events, clock>>

GA_Balance(p) ==
    /\ pc[p] = "ga_balance"
    /\ CanShared(p)
    /\ hist' = [hist EXCEPT ![cur[p]].status = 200,
                            ![cur[p]].balance_after =
                                calculate_account_balance(db, Data(p).account_id),
                            ![cur[p]].seen = db]
    /\ pc' = [pc EXCEPT ![p] = "idle"]
    /\ cur' = [cur EXCEPT ![p] = 0]
    /\ UNCHANGED <<db, lock, work, loc, events, clock>>


(***************************************************************************)
(* create_transaction, purchase branch                                     *)
(***************************************************************************)
\* variant: an unknown product id yields a blank product instead of no row
SelectProduct_blank(products, id) ==
    IF id \in DOMAIN products THEN <<products[id]>>
    ELSE <<[name |-> "", price |-> 0, requires_prep |-> FALSE,
            track_inventory |-> FALSE, inventory_quantity |-> 0]>>

\* SELECT ... FROM products WHERE id = ? ; fetchone() is None for no row
SelectProduct(products, id) ==
    IF id \in DOMAIN products THEN <<products[id]>> ELSE << >>

\* lines 750-757: one SELECT per item, the total accumulated in request order
CT_CalcItem(p) ==
    /\ pc[p] = "calc"
    /\ lock[p] # "NONE" \/ CanShared(p)
    /\ lock' = [lock EXCEPT ![p] = LockAfterRead(@)]
    /\ LET items   == Data(p).items
           item    == items[loc[p].i]
           product == SelectProduct(View(p).products, item.product_id)
       IN IF product = << >>
          THEN Raise(p, "'NoneType' object is not subscriptable")
          ELSE LET total == loc[p].total_amount + product[1].price * item.quantity
               IN IF loc[p].i < Len(items)
                  THEN /\ loc' = [loc EXCEPT ![p].total_amount = total,
                                             ![p].i = @ + 1]
                       /\ UNCHANGED pc
                  ELSE /\ loc' = [loc EXCEPT ![p].total_amount = -total,
                                             ![p].i = 1]
                       /\ pc' = [pc EXCEPT ![p] = "insert"]
    /\ UNCHANGED <<db, work, cur, hist, events, clock>>

\* variant: every line item is queued for preparation
NeedsPrep_always(product) == TRUE

\* line 829: if product['requires_prep']
NeedsPrep(product) == product.requires_prep

\* variant: the item row takes the price and name sent by the client
AddLineItem_client(d, transaction_id, item, account_name) ==
    LET product == d.products[item.product_id]
        item_id == Len(d.transaction_items) + 1
        row == [transaction_id |-> transaction_id,
                product_id |-> item.product_id,
                product_name |-> item.product_name,
                quantity |-> item.quantity,
                unit_price |-> item.price,
                line_total |-> item.price * item.quantity]
        prep == [transaction_id |-> transaction_id,
                 transaction_item_id |-> item_id,
                 product_name |-> item.product_name,
                 quantity |-> item.quantity,
                 account_name |-> account_name,
                 status |-> "pending",
                 ordered_at |-> clock,
                 completed_at |-> NoTime,
                 completed_by |-> "",
                 completed_seq |-> 0]
    IN [d EXCEPT
          !.transaction_items = Append(@, row),
          !.prep_queue = IF NeedsPrep(product) THEN Append(@, prep) ELSE @,
          !.products[item.product_id].inventory_quantity =
              IF product.track_inventory THEN @ - item.quantity ELSE @]

\* variant: the inventory UPDATE refuses to go below zero
AddLineItem_floor(d, transaction_id, item, account_name) ==
    LET product == SelectProduct(d.products, item.product_id)[1]
        item_id == Len(d.transaction_items) + 1
        row == [transaction_id |-> transaction_id,
                product_id |-> item.product_id,
                product_name |-> product.name,
                quantity |-> item.quantity,
                unit_price |-> product.price,
                line_total |-> product.price * item.quantity]
        prep == [transaction_id |-> transaction_id,
                 transaction_item_id |-> item_id,
                 product_name |-> product.name,
                 quantity |-> item.quantity,
                 account_name |-> account_name,
                 status |-> "pending",
                 ordered_at |-> clock,
                 completed_at |-> NoTime,
                 completed_by |-> "",
                 completed_seq |-> 0]
    IN [d EXCEPT
          !.transaction_items = Append(@, row),
          !.prep_queue = IF NeedsPrep(product) THEN Append(@, prep) ELSE @,
          !.products[item.product_id].inventory_quantity =
              IF product.track_inventory /\ @ >= item.quantity
              THEN @ - item.quantity ELSE @]

\* lines 815-842 for one item: the item row, the prep entry, the inventory
AddLineItem(d, transaction_id, item, account_name) ==
    LET product == SelectProduct(d.products, item.product_id)[1]
        item_id == Len(d.transaction_items) + 1
        row == [transaction_id |-> transaction_id,
                product_id |-> item.product_id,
                product_name |-> product.name,
                quantity |-> item.quantity,
                unit_price |-> product.price,
                line_total |-> product.price * item.quantity]
        prep == [transaction_id |-> transaction_id,
                 transaction_item_id |-> item_id,
                 product_name |-> product.name,
                 quantity |-> item.quantity,
                 account_name |-> account_name,
                 status |-> "pending",
                 ordered_at |-> clock,
                 completed_at |-> NoTime,
                 completed_by |-> "",
                 completed_seq |-> 0]
    IN [d EXCEPT
          !.transaction_items = Append(@, row),
          !.prep_queue = IF NeedsPrep(product) THEN Append(@, prep) ELSE @,
          !.products[item.product_id].inventory_quantity =
              IF product.track_inventory THEN @ - item.quantity ELSE @]

CT_AddLineItem(p) ==
    /\ pc[p] = "items"
    /\ lock[p] = "NONE" => ~WriterElsewhere(p) /\ CanShared(p)
    /\ lock' = [lock EXCEPT ![p] = "RESERVED"]
    /\ LET items == Data(p).items
           item  == items[loc[p].i]
           d     == View(p)
           account_name == IF Data(p).account_id \in DOMAIN d.accounts
                           THEN d.accounts[Data(p).account_id].account_name
                           ELSE "Unknown"
       IN IF SelectProduct(d.products, item.product_id) = << >>
          THEN /\ Raise(p, "'NoneType' object is not subscriptable")
               /\ UNCHANGED work
          ELSE /\ work' = [work EXCEPT ![p] =
                              AddLineItem(d, loc[p].transaction_id, item, account_name)]
               /\ loc' = [loc EXCEPT ![p].i = @ + 1, ![p].after = "balance"]
               /\ pc' = [pc EXCEPT ![p] =
                            IF loc[p].i < Len(items) THEN "items" ELSE "commit"]
    /\ UNCHANGED <<db, cur, hist, events, clock>>

(***************************************************************************)
(* update_product  (app.py 480-500)                                        *)
(***************************************************************************)
\* ProductSchema: name 1..100 characters, price within 0..10000
ProductSchema(data) ==
    /\ data.name # ""
    /\ data.price >= 0 /\ data.price <= 10000

UP_Begin(p, data) ==
    /\ Dispatch(p)
    /\ Len(hist) < MaxReqs
    /\ IF ~ProductSchema(data)
       THEN /\ hist' = Append(hist, [NewEntry(data) EXCEPT !.status = 400,
                                         !.error = "Validation failed"])
            /\ UNCHANGED <<pc, cur, loc>>
       ELSE /\ hist' = Append(hist, NewEntry(data))
            /\ cur' = [cur EXCEPT ![p] = Len(hist) + 1]
            /\ loc' = [loc EXCEPT ![p] = [InitLoc EXCEPT !.after = "up_emit"]]
            /\ pc' = [pc EXCEPT ![p] = "update"]
    /\ UNCHANGED <<db, lock, work, events, clock>>

\* variant: the edit is carried over to the line items and prep entries
\* that were sold under the product
UpdateProduct_cascade(d, data) ==
    IF data.product_id \in DOMAIN d.products
    THEN [d EXCEPT
            !.products[data.product_id] =
                [name |-> data.name, price |-> data.price,
                 requires_prep |-> data.requires_prep,
                 track_inventory |-> data.track_inventory,
                 inventory_quantity |-> data.inventory_quantity],
            !.transaction_items =
                [k \in 1..Len(d.transaction_items) |->
                    LET row == d.transaction_items[k]
                    IN IF row.product_id = data.product_id
                       THEN [row EXCEPT !.product_name = data.name,
                                        !.unit_price = data.price,
                                        !.line_total = data.price * row.quantity]
                       ELSE row]]
    ELSE d

\* lines 488-493: UPDATE products SET name, price, inventory_quantity,
\* track_inventory, requires_prep WHERE id = ?  (no row: nothing changes)
UpdateProduct(d, data) ==
    IF data.product_id \in DOMAIN d.products
    THEN [d EXCEPT !.products[data.product_id] =
             [name |-> data.name, price |-> data.price,
              requires_prep |-> data.requires_prep,
              track_inventory |-> data.track_inventory,
              inventory_quantity |-> data.inventory_quantity]]
    ELSE d

\* the UPDATE opens the implicit transaction and waits for the RESERVED lock
UP_Update(p) ==
    /\ pc[p] = "update"
    /\ ~WriterElsewhere(p) /\ CanShared(p)
    /\ lock' = [lock EXCEPT ![p] = "RESERVED"]
    /\ work' = [work EXCEPT ![p] = UpdateProduct(db, Data(p))]
    /\ pc' = [pc EXCEPT ![p] = "commit"]
    /\ UNCHANGED <<db, cur, loc, hist, events, clock>>

UP_Emit(p) ==
    /\ pc[p] = "up_emit"
    /\ events' = Append(events,
          [name |-> "product_updated", product_id |-> Data(p).product_id,
           request |-> cur[p]])
    /\ hist' = [hist EXCEPT ![cur[p]].status = 200]
    /\ pc' = [pc EXCEPT ![p] = "idle"]
    /\ cur' = [cur EXCEPT ![p] = 0]
    /\ loc' = [loc EXCEPT ![p] = InitLoc]
    /\ UNCHANGED <<db, lock, work, clock>>

(***************************************************************************)
(* complete_prep_item  (app.py 927-949)                                    *)
(***************************************************************************)
\* bookkeeping: how many completions the table has seen
RECURSIVE LastSeq(_)
LastSeq(rows) ==
    IF rows = << >> THEN 0
    ELSE LET rest == LastSeq(Tail(rows))
         IN IF Head(rows).completed_seq > rest THEN Head(rows).completed_seq ELSE rest

\* variant: completing a completed entry puts it back to pending
CompletePrep_toggle(d, item_id, completed_by) ==
    IF item_id \in 1..Len(d.prep_queue)
    THEN [d EXCEPT !.prep_queue[item_id] =
            [@ EXCEPT !.status = IF @ = "pending" THEN "completed" ELSE "pending",
                      !.completed_at = clock,
                      !.completed_by = completed_by,
                      !.completed_seq = LastSeq(d.prep_queue) + 1]]
    ELSE d

\* variant: the UPDATE is guarded by AND status = 'pending'
CompletePrep_guarded(d, item_id, completed_by) ==
    IF item_id \in 1..Len(d.prep_queue) /\ d.prep_queue[item_id].status = "pending"
    THEN [d EXCEPT !.prep_queue[item_id] =
            [@ EXCEPT !.status = "completed",
                      !.completed_at = clock,
                      !.completed_by = completed_by,
                      !.completed_seq = LastSeq(d.prep_queue) + 1]]
    ELSE d

\* lines 935-941: UPDATE prep_queue SET status = 'completed', completed_at =
\* CURRENT_TIMESTAMP, completed_by = ? WHERE id = ?  (no row: nothing changes)
CompletePrep(d, item_id, completed_by) ==
    IF item_id \in 1..Len(d.prep_queue)
    THEN [d EXCEPT !.prep_queue[item_id] =
            [@ EXCEPT !.status = "completed",
                      !.completed_at = clock,
                      !.completed_by = completed_by,
                      !.completed_seq = LastSeq(d.prep_queue) + 1]]
    ELSE d

\* lines 931-934
CP_Begin(p, data) ==
    /\ Dispatch(p)
    /\ Len(hist) < MaxReqs
    /\ hist' = Append(hist, NewEntry(data))
    /\ cur' = [cur EXCEPT ![p] = Len(hist) + 1]
    /\ loc' = [loc EXCEPT ![p] = [InitLoc EXCEPT !.after = "cp_emit"]]
    /\ pc' = [pc EXCEPT ![p] = "cp_update"]
    /\ UNCHANGED <<db, lock, work, events, clock>>

\* the UPDATE opens the implicit transaction and waits for the RESERVED lock
CP_Update(p) ==
    /\ pc[p] = "cp_update"
    /\ ~WriterElsewhere(p) /\ CanShared(p)
    /\ lock' = [lock EXCEPT ![p] = "RESERVED"]
    /\ work' = [work EXCEPT ![p] =
                    CompletePrep(db, Data(p).item_id, Data(p).completed_by)]
    /\ hist' = [hist EXCEPT ![cur[p]].at = clock]
    /\ pc' = [pc EXCEPT ![p] = "commit"]
    /\ UNCHANGED <<db, cur, loc, events, clock>>

\* lines 946-949: socketio.emit('prep_queue_updated') and the response
CP_Emit(p) ==
    /\ pc[p] = "cp_emit"
    /\ events' = Append(events,
          [name |-> "prep_queue_updated", item_id |-> Data(p).item_id,
           status |-> "completed", request |-> cur[p]])
    /\ hist' = [hist EXCEPT ![cur[p]].status = 200]
    /\ pc' = [pc EXCEPT ![p] = "idle"]
    /\ cur' = [cur EXCEPT ![p] = 0]
    /\ loc' = [loc EXCEPT ![p] = InitLoc]
    /\ UNCHANGED <<db, lock, work, clock>>

\* a second passes.  Only the statements that stamp a row look at the
\* clock (lines 832 and 938), so the seconds are counted when one of them
\* is about to run: a tick at any other moment commutes with every step up
\* to the next stamp.
Tick ==
    /\ clock < MaxClock
    /\ \E p \in Procs : pc[p] \in {"items", "cp_update"}
    /\ clock' = clock + 1
    /\ UNCHANGED <<db, lock, work, pc, cur, loc, hist, events>>

(***************************************************************************)
(* get_prep_queue (app.py 878-925), get_prep_queue_history (951-1000) and  *)
(* the product rows of get_products (430-445): one autocommit SELECT each  *)
(***************************************************************************)
Read(p, kind, items) ==
    /\ Dispatch(p)
    /\ Len(hist) < MaxReqs
    /\ CanShared(p)
    /\ hist' = Append(hist, [NewEntry([kind |-> kind]) EXCEPT
                                !.status = 200, !.seen = db, !.items = items])
    /\ UNCHANGED <<db, lock, work, pc, cur, loc, events, clock>>

\* ORDER BY: the ids of `ids` by ascending (or descending) key; rows with
\* equal keys come out in rowid order, as SQLite's scan and sorter leave them
RECURSIVE OrderBy(_, _, _)
OrderBy(ids, key, desc) ==
    IF ids = {} THEN << >>
    ELSE LET Before(a, b) ==
                 \/ (IF desc THEN key[a] > key[b] ELSE key[a] < key[b])
                 \/ (key[a] = key[b] /\ a < b)
             first == CHOOSE a \in ids : \A b \in ids \ {a} : Before(a, b)
         IN <<first>> \o OrderBy(ids \ {first}, key, desc)

WithStatus(d, status) ==
    {k \in 1..Len(d.prep_queue) : d.prep_queue[k].status = status}

\* variant: the pending listing newest first
PendingListing_newest_first(d) ==
    OrderBy(WithStatus(d, "pending"),
            [k \in 1..Len(d.prep_queue) |-> -d.prep_queue[k].ordered_at], FALSE)

\* lines 884-890: WHERE status = 'pending' ORDER BY ordered_at ASC
PendingListing(d) ==
    OrderBy(WithStatus(d, "pending"),
            [k \in 1..Len(d.prep_queue) |-> d.prep_queue[k].ordered_at], FALSE)

\* lines 958-965: WHERE status = 'completed' ORDER BY completed_at DESC LIMIT ?
CompletedListing(d, limit) ==
    LET all == OrderBy(WithStatus(d, "completed"),
                  [k \in 1..Len(d.prep_queue) |-> d.prep_queue[k].completed_at], TRUE)
    IN SubSeq(all, 1, IF Len(all) < limit THEN Len(all) ELSE limit)

get_prep_queue(p) == Read(p, "get_prep_queue", PendingListing(db))

get_prep_queue_history(p) ==
    Read(p, "get_prep_queue_history", CompletedListing(db, HistoryLimit))

get_products(p) == Read(p, "get_products", << >>)

(***************************************************************************)
(* Requests                                                                *)
(***************************************************************************)
Txn(account_id, type, items, total_amount, original) ==
    [kind |-> "transaction", account_id |-> account_id,
     transaction_type |-> type, items |-> items,
     total_amount |-> total_amount, has_amount |-> FALSE, amount |-> 0,
     original_transaction_id |-> original, notes |-> << >>]

Item(product_id, quantity, price, product_name) ==
    [product_id |-> product_id, quantity |-> quantity,
     price |-> price, product_name |-> product_name]

Init ==
    /\ db = InitDb
    /\ lock = [p \in Procs |-> "NONE"]
    /\ work = [p \in Procs |-> NoWork]
    /\ pc = [p \in Procs |-> "idle"]
    /\ cur = [p \in Procs |-> 0]
    /\ loc = [p \in Procs |-> InitLoc]
    /\ hist = << >>
    /\ events = << >>
    /\ clock = 0

\* ledger requests: payments, free adjustments, a purchase, balance reads
LedgerRequests ==
    { Txn(1, "payment", << >>, 10, NoId),
      [Txn(1, "payment", << >>, -5, NoId) EXCEPT !.has_amount = TRUE, !.amount = -5],
      Txn(1, "payment", << >>, 0, NoId),
      Txn(1, "adjustment", << >>, -3, NoId),
      Txn(3, "payment", << >>, 10, NoId) }

Next ==
    \E p \in Procs :
        \/ \E d \in LedgerRequests : CT_Begin(p, d)
        \/ \E a \in {1, 2} : GA_Begin(p, a)
        \/ GA_Balance(p)
        \/ CT_InsertTransaction(p)
        \/ Commit(p)
        \/ CommitExclusive(p)
        \/ CT_NewBalance(p)
        \/ CT_Emit(p)
        \/ CT_Except(p)

Spec == Init /\ [][Next]_vars

\* refund adjustments against a payment
AdjustRequests ==
    { Txn(1, "payment", << >>, 10, NoId),
      Txn(1, "adjustment", << >>, -10, 1),
      Txn(1, "adjustment", << >>, -10, 2) }

NextAdjust ==
    \E p \in Procs :
        \/ \E d \in AdjustRequests : CT_Begin(p, d)
        \/ CT_CheckOriginal(p)
        \/ CT_InsertTransaction(p)
        \/ CT_MarkOriginal(p)
        \/ Commit(p)
        \/ CommitExclusive(p)
        \/ CT_NewBalance(p)
        \/ CT_Emit(p)
        \/ CT_Except(p)

SpecAdjust == Init /\ [][NextAdjust]_vars

\* purchases racing with a catalog edit; the second and third request
\* differ only in the price and name the client sends
PurchaseRequests ==
    { Txn(1, "purchase", <<Item(2, 2, 2, "candy"), Item(1, 1, 3, "burger")>>, 0, NoId),
      Txn(1, "purchase", <<Item(2, 2, 0, "free"), Item(1, 1, 0, "free")>>, 0, NoId),
      Txn(1, "purchase", <<Item(1, 1, 3, "burger"), Item(3, 1, 1, "ghost")>>, 0, NoId),
      Txn(1, "purchase", <<Item(3, 1, 1, "ghost"), Item(2, 1, 2, "candy")>>, 0, NoId) }

ProductUpdates ==
    { [kind |-> "update_product", product_id |-> 1, name |-> "cheeseburger",
       price |-> 5, requires_prep |-> TRUE, track_inventory |-> TRUE,
       inventory_quantity |-> 2] }

NextPurchase ==
    \E p \in Procs :
        \/ \E d \in PurchaseRequests : CT_Begin(p, d)
        \/ \E d \in ProductUpdates : UP_Begin(p, d)
        \/ UP_Update(p)
        \/ UP_Emit(p)
        \/ CT_CalcItem(p)
        \/ CT_InsertTransaction(p)
        \/ CT_AddLineItem(p)
        \/ Commit(p)
        \/ CommitExclusive(p)
        \/ CT_NewBalance(p)
        \/ CT_Emit(p)
        \/ CT_Except(p)

SpecPurchase == Init /\ [][NextPurchase]_vars

\* a purchase and its refund, with readers in between
ReaderRequests ==
    { Txn(1, "purchase", <<Item(2, 2, 2, "candy"), Item(1, 1, 3, "burger")>>, 0, NoId),
      Txn(1, "adjustment", << >>, 7, 1) }

NextReaders ==
    \E p \in Procs :
        \/ \E d \in ReaderRequests : CT_Begin(p, d)
        \/ get_prep_queue(p)
        \/ get_products(p)
        \/ GA_Begin(p, 1)
        \/ GA_Balance(p)
        \/ CT_CalcItem(p)
        \/ CT_CheckOriginal(p)
        \/ CT_InsertTransaction(p)
        \/ CT_MarkOriginal(p)
        \/ CT_AddLineItem(p)
        \/ Commit(p)
        \/ CommitExclusive(p)
        \/ CT_NewBalance(p)
        \/ CT_Emit(p)
        \/ CT_Except(p)

SpecReaders == Init /\ [][NextReaders]_vars

\* the order side of the prep queue: a purchase of a burger and candy, a
\* catalog edit that turns preparation on for candy, the pending listing
PrepPurchases ==
    { Txn(1, "purchase", <<Item(1, 1, 3, "burger"), Item(2, 2, 2, "candy")>>, 0, NoId) }

PrepUpdates ==
    { [kind |-> "update_product", product_id |-> 2, name |-> "candy",
       price |-> 2, requires_prep |-> TRUE, track_inventory |-> FALSE,
       inventory_quantity |-> 0] }

NextPrep ==
    \/ Tick
    \/ \E p \in Procs :
        \/ \E d \in PrepPurchases : CT_Begin(p, d)
        \/ \E d \in PrepUpdates : UP_Begin(p, d)
        \/ get_prep_queue(p)
        \/ UP_Update(p)
        \/ UP_Emit(p)
        \/ CT_CalcItem(p)
        \/ CT_InsertTransaction(p)
        \/ CT_AddLineItem(p)
        \/ Commit(p)
        \/ CommitExclusive(p)
        \/ CT_NewBalance(p)
        \/ CT_Emit(p)
        \/ CT_Except(p)

SpecPrep == Init /\ [][NextPrep]_vars

\* the kitchen side: purchases of two burger lines, completions by two
\* people, both listings.  The kitchen opens with one such purchase already
\* served by create_transaction, alone, in second 0.
KitchenOrder ==
    Txn(2, "purchase", <<Item(1, 2, 3, "burger"), Item(1, 1, 3, "burger")>>, 0, NoId)

KitchenPurchases == { KitchenOrder }

\* the database after lines 778-844 ran for KitchenOrder on InitDb
KitchenDb ==
    LET inserted == [InitDb EXCEPT !.transactions =
                        <<NewTransactionRow(KitchenOrder, -9, 1)>>]
        first    == AddLineItem(inserted, 1, KitchenOrder.items[1], InitAccounts[2].account_name)
    IN AddLineItem(first, 1, KitchenOrder.items[2], InitAccounts[2].account_name)

InitKitchen ==
    /\ clock = 0
    /\ db = KitchenDb
    /\ lock = [p \in Procs |-> "NONE"]
    /\ work = [p \in Procs |-> NoWork]
    /\ pc = [p \in Procs |-> "idle"]
    /\ cur = [p \in Procs |-> 0]
    /\ loc = [p \in Procs |-> InitLoc]
    /\ hist = <<[data |-> KitchenOrder, status |-> 201, error |-> "",
                 transaction_id |-> 1, total_amount |-> -9, balance_after |-> -9,
                 persisted |-> TRUE, pre_balance |-> 0, pre |-> InitDb,
                 seen |-> KitchenDb, orig_state |-> "none", overlaps |-> {},
                 items |-> << >>, at |-> NoTime]>>
    /\ events = <<[name |-> "transaction_created", transaction_id |-> 1,
                   account_id |-> 2, total_amount |-> -9, balance_after |-> -9,
                   request |-> 1]>>

Completions ==
    { [kind |-> "complete_prep_item", item_id |-> 1, completed_by |-> "ann"],
      [kind |-> "complete_prep_item", item_id |-> 1, completed_by |-> "bob"],
      [kind |-> "complete_prep_item", item_id |-> 2, completed_by |-> "ann"] }

NextKitchen ==
    \/ Tick
    \/ \E p \in Procs :
        \/ \E d \in KitchenPurchases : CT_Begin(p, d)
        \/ \E d \in Completions : CP_Begin(p, d)
        \/ get_prep_queue(p)
        \/ get_prep_queue_history(p)
        \/ CP_Update(p)
        \/ CP_Emit(p)
        \/ CT_CalcItem(p)
        \/ CT_InsertTransaction(p)
        \/ CT_AddLineItem(p)
        \/ Commit(p)
        \/ CommitExclusive(p)
        \/ CT_NewBalance(p)
        \/ CT_Emit(p)
        \/ CT_Except(p)

SpecKitchen == InitKitchen /\ [][NextKitchen]_vars

\* ledger requests whose notification may fail
NotifyRequests ==
    { Txn(1, "payment", << >>, -5, NoId),
      Txn(1, "adjustment", << >>, -3, NoId),
      Txn(3, "payment", << >>, 10, NoId) }

NextNotify ==
    \E p \in Procs :
        \/ \E d \in NotifyRequests : CT_Begin(p, d)
        \/ CT_InsertTransaction(p)
        \/ Commit(p)
        \/ CommitExclusive(p)
        \/ CT_NewBalance(p)
        \/ CT_Emit(p)
        \/ CT_EmitFails(p)
        \/ CT_Except(p)

SpecNotify == Init /\ [][NextNotify]_vars


(***************************************************************************)
(* Properties                                                              *)
(***************************************************************************)
Finished(e) == e.status # 0

IsTxn(e) == e.data.kind = "transaction"

RowsOf(rows, u) == {k \in 1..Len(rows) : rows[k].request = u}

\* C1: every balance a handler obtains (get_account, and the balance_after
\* of create_transaction) is the sum of the amounts of the transactions of
\* that account committed in the database at the moment of the read, 0 when
\* there are none.
C1_BalanceIsLedgerSum ==
    \A u \in 1..Len(hist) :
        LET e == hist[u]
        IN (e.status \in {200, 201} /\ e.data.kind \in {"get_account", "transaction"})
           => e.balance_after = LedgerSum(e.seen.transactions, e.data.account_id)

C1_Witness ==
    \E u \in 1..Len(hist) :
        LET e == hist[u]
        IN /\ e.data.kind = "get_account" /\ e.status = 200
           /\ e.balance_after = 7
           /\ \E j, k \in 1..Len(e.seen.transactions) :
                 /\ e.seen.transactions[j].transaction_type = "payment"
                 /\ e.seen.transactions[k].transaction_type = "adjustment"

\* C9: the balance_after of a successful create_transaction is the balance
\* of the account just before its commit plus its own amount.
C9_BalanceAfterIsPreviousPlusAmount ==
    \A u \in 1..Len(hist) :
        LET e == hist[u]
        IN (IsTxn(e) /\ e.status = 201)
           => e.balance_after = e.pre_balance + e.total_amount

\* C10: a payment request with a zero or negative requested amount is
\* rejected by validation and leaves no ledger entry.
C10_NonPositivePaymentRejected ==
    \A u \in 1..Len(hist) :
        LET e == hist[u]
        IN (IsTxn(e) /\ Finished(e) /\ e.data.transaction_type = "payment"
               /\ e.data.total_amount <= 0)
           => /\ e.status = 400
              /\ RowsOf(db.transactions, u) = {}


IsAdjustmentOf(e, t) ==
    /\ IsTxn(e)
    /\ e.data.transaction_type = "adjustment"
    /\ e.data.original_transaction_id = t

Overlap(u, v) == u \in hist[v].overlaps \/ v \in hist[u].overlaps

\* two finished adjustment requests that ran concurrently and name the same
\* original, which was committed and not yet adjusted when each of them began
ConcurrentPair(u, v, t) ==
    /\ u # v
    /\ Overlap(u, v)
    /\ IsAdjustmentOf(hist[u], t) /\ IsAdjustmentOf(hist[v], t)
    /\ Finished(hist[u]) /\ Finished(hist[v])
    /\ hist[u].orig_state = "open" /\ hist[v].orig_state = "open"

Committed(u) == hist[u].status = 201 /\ RowsOf(db.transactions, u) # {}

C4_AdjustedOriginalRejected ==
    \A u \in 1..Len(hist) :
        LET e == hist[u]
        IN (IsTxn(e) /\ Finished(e) /\ e.data.transaction_type = "adjustment"
               /\ e.orig_state = "adjusted")
           => /\ e.status = 500
              /\ e.error = "AlreadyAdjusted"
              /\ ~e.persisted
              /\ RowsOf(db.transactions, u) = {}

C4_Witness ==
    \E u \in 1..Len(hist) :
        /\ IsTxn(hist[u]) /\ Finished(hist[u])
        /\ hist[u].data.transaction_type = "adjustment"
        /\ hist[u].orig_state = "adjusted"
        /\ hist[u].error = "AlreadyAdjusted"
        /\ db.transactions[hist[u].data.original_transaction_id].transaction_type
              = "payment"


AdjustmentsOf(rows, t) ==
    {k \in 1..Len(rows) : rows[k].transaction_type = "adjustment"
                          /\ rows[k].original = t}

\* C3: every transaction is named as the original by at most one committed
\* adjustment, and has_been_adjusted never returns from true to false.
C3_AtMostOneAdjustment ==
    /\ [](\A t \in 1..Len(db.transactions) :
             Cardinality(AdjustmentsOf(db.transactions, t)) <= 1)
    /\ [][\A t \in 1..Len(db.transactions) :
             db.transactions[t].has_been_adjusted
             => db'.transactions[t].has_been_adjusted]_vars


IsPurchase(e) == IsTxn(e) /\ e.data.transaction_type = "purchase"

ItemsOf(d, t) == SelectSeq(d.transaction_items, LAMBDA r : r.transaction_id = t)

PrepOf(d, t) == SelectSeq(d.prep_queue, LAMBDA r : r.transaction_id = t)

RECURSIVE SumLines(_), SumLineTotals(_)
SumLines(rows) ==
    IF rows = << >> THEN 0
    ELSE Head(rows).quantity * Head(rows).unit_price + SumLines(Tail(rows))

SumLineTotals(rows) ==
    IF rows = << >> THEN 0 ELSE Head(rows).line_total + SumLineTotals(Tail(rows))

UnknownProduct(data) ==
    \E i \in 1..Len(data.items) : data.items[i].product_id \notin DOMAIN InitProducts

\* C5: a purchase request with an unknown product id among its items, in
\* any position, fails and persists nothing: no step of the request changes
\* the database, so no transaction, item, prep entry or inventory change.
C5_UnknownProductPersistsNothing ==
    \A u \in 1..Len(hist) :
        LET e == hist[u]
        IN (IsPurchase(e) /\ UnknownProduct(e.data))
           => /\ ~e.persisted
              /\ RowsOf(db.transactions, u) = {}
              /\ Finished(e) => e.status = 500

C5_Witness ==
    \E u \in 1..Len(hist) :
        LET e == hist[u]
        IN /\ IsPurchase(e) /\ Finished(e)
           /\ e.data.items[1].product_id \in DOMAIN InitProducts
           /\ e.data.items[2].product_id \notin DOMAIN InitProducts
           /\ e.status = 500
           /\ \E v \in 1..Len(hist) : IsPurchase(hist[v]) /\ hist[v].status = 201

\* C7: the amount of every committed purchase is minus the sum of
\* quantity * unit_price over its committed items, which is also minus the
\* sum of their line totals, whatever catalog edits ran beside the purchase.
C7_AmountIsMinusItemSum ==
    \A t \in 1..Len(db.transactions) :
        db.transactions[t].transaction_type = "purchase"
        => /\ db.transactions[t].total_amount = -SumLines(ItemsOf(db, t))
           /\ db.transactions[t].total_amount = -SumLineTotals(ItemsOf(db, t))

C7_Witness ==
    \E u, v \in 1..Len(hist) :
        /\ Overlap(u, v)
        /\ IsPurchase(hist[u]) /\ Committed(u)
        /\ hist[v].data.kind = "update_product" /\ hist[v].status = 200
        /\ \E t \in RowsOf(db.transactions, u) :
              /\ Len(ItemsOf(db, t)) = 2
              /\ \E k \in 1..2 : ItemsOf(db, t)[k].unit_price = 5

RECURSIVE ExpectedTotal(_, _), ExpectedPrep(_, _)
ExpectedTotal(products, items) ==
    IF items = << >> THEN 0
    ELSE products[Head(items).product_id].price * Head(items).quantity
         + ExpectedTotal(products, Tail(items))

ExpectedPrep(products, items) ==
    IF items = << >> THEN << >>
    ELSE (IF products[Head(items).product_id].requires_prep
          THEN << <<products[Head(items).product_id].name, Head(items).quantity>> >>
          ELSE << >>) \o ExpectedPrep(products, Tail(items))

\* C8: what a purchase commits is a function of the catalog at its commit
\* and of the requested product ids and quantities alone; the price and
\* name fields sent by the client appear nowhere in it.
C8_CommittedFromCatalogOnly ==
    \A u \in 1..Len(hist) : \A t \in RowsOf(db.transactions, u) :
        LET e == hist[u]
            cat == e.pre.products
            items == ItemsOf(db, t)
            prep == PrepOf(db, t)
        IN IsPurchase(e)
           => /\ db.transactions[t].total_amount = -ExpectedTotal(cat, e.data.items)
              /\ Len(items) = Len(e.data.items)
              /\ \A i \in 1..Len(items) :
                    /\ items[i].product_id = e.data.items[i].product_id
                    /\ items[i].quantity = e.data.items[i].quantity
                    /\ items[i].product_name = cat[items[i].product_id].name
                    /\ items[i].unit_price = cat[items[i].product_id].price
                    /\ items[i].line_total = items[i].unit_price * items[i].quantity
              /\ [i \in 1..Len(prep) |-> <<prep[i].product_name, prep[i].quantity>>]
                    = ExpectedPrep(cat, e.data.items)

SameOrder(d1, d2) ==
    /\ Len(d1.items) = Len(d2.items)
    /\ \A i \in 1..Len(d1.items) :
          /\ d1.items[i].product_id = d2.items[i].product_id
          /\ d1.items[i].quantity = d2.items[i].quantity

C8_Witness ==
    \E u, v \in 1..Len(hist) :
        /\ IsPurchase(hist[u]) /\ IsPurchase(hist[v])
        /\ Committed(u) /\ Committed(v)
        /\ SameOrder(hist[u].data, hist[v].data)
        /\ hist[u].data.items[1].price # hist[v].data.items[1].price
        /\ hist[u].data.items[1].product_name # hist[v].data.items[1].product_name
        /\ hist[u].total_amount = hist[v].total_amount

RECURSIVE Sold(_, _)
Sold(rows, product_id) ==
    IF rows = << >> THEN 0
    ELSE (IF Head(rows).product_id = product_id THEN Head(rows).quantity ELSE 0)
         + Sold(Tail(rows), product_id)

RECURSIVE CountPrep(_, _)
CountPrep(products, items) ==
    IF items = << >> THEN 0
    ELSE (IF products[Head(items).product_id].requires_prep THEN 1 ELSE 0)
         + CountPrep(products, Tail(items))

\* a database image holds every commit whole: nothing derived from a ledger
\* entry without the entry, no ledger entry without what it entails
WholeCommits(d) ==
    /\ \A k \in 1..Len(d.transaction_items) :
          d.transaction_items[k].transaction_id \in 1..Len(d.transactions)
    /\ \A k \in 1..Len(d.prep_queue) :
          /\ d.prep_queue[k].transaction_id \in 1..Len(d.transactions)
          /\ d.prep_queue[k].transaction_item_id \in 1..Len(d.transaction_items)
    /\ \A t \in 1..Len(d.transactions) :
          d.transactions[t].has_been_adjusted
          => AdjustmentsOf(d.transactions, t) # {}
    /\ \A id \in DOMAIN d.products :
          d.products[id].inventory_quantity =
              InitProducts[id].inventory_quantity
              - (IF d.products[id].track_inventory
                 THEN Sold(d.transaction_items, id) ELSE 0)
    /\ \A t \in 1..Len(d.transactions) :
          LET row == d.transactions[t]
              e == hist[row.request]
          IN /\ row.transaction_type = "purchase"
                => /\ Len(ItemsOf(d, t)) = Len(e.data.items)
                   /\ Len(PrepOf(d, t)) = CountPrep(d.products, e.data.items)
             /\ (row.transaction_type = "adjustment" /\ e.orig_state = "open")
                => d.transactions[row.original].has_been_adjusted

IsReader(e) == e.data.kind \in {"get_prep_queue", "get_products", "get_account"}

C11_UnknownOriginalRejected ==
    \A u \in 1..Len(hist) :
        LET e == hist[u]
        IN (IsTxn(e) /\ Finished(e) /\ e.data.transaction_type = "adjustment"
               /\ HasOriginal(e.data)
               /\ e.data.original_transaction_id > Len(db.transactions))
           => /\ e.status = 500
              /\ ~e.persisted
              /\ RowsOf(db.transactions, u) = {}

PrepFor(d, j) == {k \in 1..Len(d.prep_queue) : d.prep_queue[k].transaction_item_id = j}

CommitsPurchase(p) ==
    /\ pc[p] = "commit2" /\ pc'[p] # "commit2"
    /\ IsPurchase(hist[cur[p]])

Columns(row) == [row EXCEPT !.completed_seq = 0]

\* C14: a prep-queue entry is modified at most once after its creation, by
\* the step that sets it to completed: whenever a step changes a column of
\* an entry, the entry was pending before and is completed after.
C14_ModifiedOnceToCompleted ==
    [][\A k \in 1..Len(db.prep_queue) :
          Columns(db'.prep_queue[k]) # Columns(db.prep_queue[k])
          => /\ db.prep_queue[k].status = "pending"
             /\ db'.prep_queue[k].status = "completed"]_vars

IsCompletion(e) == e.data.kind = "complete_prep_item"

CommitsRecompletion(p) ==
    /\ pc[p] = "commit2" /\ pc'[p] # "commit2"
    /\ IsCompletion(hist[cur[p]])
    /\ Data(p).item_id \in 1..Len(db.prep_queue)
    /\ db.prep_queue[Data(p).item_id].status = "completed"

\* C15: complete_prep_item on an entry that is already completed answers
\* with success, leaves the status completed and replaces completed_by and
\* completed_at by the caller's name and the time of the new call; the
\* other columns stay.
C15_RecompletionOverwrites ==
    /\ [](\A u \in 1..Len(hist) :
             (IsCompletion(hist[u]) /\ Finished(hist[u])) => hist[u].status = 200)
    /\ [][\A p \in Procs :
             CommitsRecompletion(p)
             => LET k == Data(p).item_id
                IN Columns(db'.prep_queue[k]) =
                      [Columns(db.prep_queue[k]) EXCEPT
                          !.completed_by = Data(p).completed_by,
                          !.completed_at = hist[cur[p]].at]]_vars

\* ann completed entry 1 in second 0, bob completed it again in second 1
C15_Witness ==
    \E v \in 1..Len(hist) :
        /\ IsCompletion(hist[v]) /\ hist[v].status = 200
        /\ hist[v].data.item_id = 1 /\ hist[v].data.completed_by = "bob"
        /\ hist[v].pre.prep_queue # << >>
        /\ hist[v].pre.prep_queue[1].status = "completed"
        /\ hist[v].pre.prep_queue[1].completed_by = "ann"
        /\ hist[v].pre.prep_queue[1].completed_at = 0
        /\ db.prep_queue[1].status = "completed"
        /\ db.prep_queue[1].completed_by = "bob"
        /\ db.prep_queue[1].completed_at = 1

Listed(seq, k) == \E i \in 1..Len(seq) : seq[i] = k

Pos(seq, k) == CHOOSE i \in 1..Len(seq) : seq[i] = k

CommitsCompletionOfPending(p) ==
    /\ pc[p] = "commit2" /\ pc'[p] # "commit2"
    /\ IsCompletion(hist[cur[p]])
    /\ Data(p).item_id \in 1..Len(db.prep_queue)
    /\ db.prep_queue[Data(p).item_id].status = "pending"

\* C16: when complete_prep_item on a pending entry commits, the entry is no
\* longer in the pending listing, it is in the completed listing ahead of
\* every entry that was completed before, and every other entry is in the
\* listings it was in.
C16_CompletedMovesToHeadOfHistory ==
    [][\A p \in Procs :
          CommitsCompletionOfPending(p)
          => LET k       == Data(p).item_id
                 pending == PendingListing(db')
                 history == CompletedListing(db', HistoryLimit)
             IN /\ ~Listed(pending, k)
                /\ Listed(history, k)
                /\ \A j \in WithStatus(db, "completed") :
                      Listed(history, j) /\ Pos(history, k) < Pos(history, j)
                /\ \A j \in 1..Len(db.prep_queue) :
                      j # k => /\ Listed(pending, j) = Listed(PendingListing(db), j)
                               /\ Listed(history, j) =
                                     Listed(CompletedListing(db, HistoryLimit), j)]_vars

\* how many transactions were committed before the purchase of entry k
CommitRank(d, k) ==
    Len(hist[d.transactions[d.prep_queue[k].transaction_id].request].pre.transactions)

Created(k) == events[k].name = "transaction_created"

\* C18: every transaction_created event stands for a transaction that is
\* committed in the database when the event is published and ever after:
\* the row of the event's id was written by the call that sent the event
\* and has the event's account and amount, the balance_after of the event
\* is the balance that call read after its commit and reports to its
\* caller, no transaction has two events, and a call that was rolled back
\* has none.
C18_EventOnlyForCommitted ==
    /\ \A k \in 1..Len(events) :
          Created(k)
          => LET ev == events[k]
                 e  == hist[ev.request]
             IN /\ ev.transaction_id \in 1..Len(db.transactions)
                /\ db.transactions[ev.transaction_id].request = ev.request
                /\ db.transactions[ev.transaction_id].account_id = ev.account_id
                /\ db.transactions[ev.transaction_id].total_amount = ev.total_amount
                /\ e.persisted
                /\ ev.balance_after = LedgerSum(e.seen.transactions, ev.account_id)
                /\ Finished(e) => /\ e.status = 201
                                  /\ e.transaction_id = ev.transaction_id
                                  /\ e.balance_after = ev.balance_after
    /\ \A j, k \in 1..Len(events) :
          (Created(j) /\ Created(k) /\ j # k)
          => events[j].transaction_id # events[k].transaction_id
    /\ \A u \in 1..Len(hist) :
          (IsTxn(hist[u]) /\ Finished(hist[u]) /\ RowsOf(db.transactions, u) = {})
          => \A k \in 1..Len(events) : events[k].request # u

\* a payment was rolled back (unknown account), a later payment took the
\* same id and is the only one with an event
C18_Witness ==
    \E u, v \in 1..Len(hist) : \E k \in 1..Len(events) :
        /\ u < v
        /\ IsTxn(hist[u]) /\ hist[u].status = 500
        /\ hist[u].error = "FOREIGN KEY constraint failed"
        /\ hist[v].status = 201 /\ hist[v].transaction_id = 1
        /\ hist[v].data.total_amount = -5
        /\ Created(k) /\ events[k].request = v
        /\ events[k].total_amount = 5 /\ events[k].balance_after = 5
        /\ Len(events) = 1

\* C19: a create_transaction call whose transaction is committed reports
\* success also when the notification fails after the commit, and a call
\* that reports failure has persisted nothing.
C19_FailureMeansNothingPersisted ==
    \A u \in 1..Len(hist) :
        LET e == hist[u]
        IN (IsTxn(e) /\ Finished(e))
           => /\ RowsOf(db.transactions, u) # {} => e.status = 201
              /\ e.status # 201 => (~e.persisted /\ RowsOf(db.transactions, u) = {})

RECURSIVE Requested(_, _)
Requested(items, product_id) ==
    IF items = << >> THEN 0
    ELSE (IF Head(items).product_id = product_id THEN Head(items).quantity ELSE 0)
         + Requested(Tail(items), product_id)

\* the quantity of a product in the purchases committed so far
RECURSIVE SoldUpTo(_, _)
SoldUpTo(n, product_id) ==
    IF n = 0 THEN 0
    ELSE SoldUpTo(n - 1, product_id)
         + (IF IsPurchase(hist[n]) /\ RowsOf(db.transactions, n) # {}
            THEN Requested(hist[n].data.items, product_id) ELSE 0)

\* C20: with no catalog edits, the inventory_quantity of a tracked product
\* is its initial value minus the quantities of the committed purchase
\* items of that product, below zero if need be; the inventory of an
\* untracked product is its initial value.
C20_InventoryIsInitialMinusSold ==
    \A id \in DOMAIN db.products :
        db.products[id].inventory_quantity =
            IF InitProducts[id].track_inventory
            THEN InitProducts[id].inventory_quantity - SoldUpTo(Len(hist), id)
            ELSE InitProducts[id].inventory_quantity

\* three purchases of one burger each committed, two of them side by side,
\* with two burgers in stock
C20_Witness ==
    /\ db.products[1].inventory_quantity = -1
    /\ db.products[2].inventory_quantity = 0
    /\ Len(db.transactions) = 3
    /\ \A u \in 1..Len(hist) : IsPurchase(hist[u]) /\ hist[u].status = 201
    /\ \E u, v \in 1..Len(hist) : u # v /\ Overlap(u, v)

(***************************************************************************)
(* Catalog edits after a sale                                              *)
(***************************************************************************)
\* a catalog edit that renames the burger, reprices it and takes it off the
\* prep queue
CatalogUpdates ==
    { [kind |-> "update_product", product_id |-> 1, name |-> "cheeseburger",
       price |-> 5, requires_prep |-> FALSE, track_inventory |-> TRUE,
       inventory_quantity |-> 2] }

NextCatalog ==
    \E p \in Procs :
        \/ \E d \in PrepPurchases : CT_Begin(p, d)
        \/ \E d \in CatalogUpdates : UP_Begin(p, d)
        \/ UP_Update(p)
        \/ UP_Emit(p)
        \/ CT_CalcItem(p)
        \/ CT_InsertTransaction(p)
        \/ CT_AddLineItem(p)
        \/ Commit(p)
        \/ CommitExclusive(p)
        \/ CT_NewBalance(p)
        \/ CT_Emit(p)
        \/ CT_Except(p)

SpecCatalog == Init /\ [][NextCatalog]_vars

CommitsProductUpdate(p) ==
    /\ pc[p] = "commit2" /\ pc'[p] # "commit2"
    /\ Data(p).kind = "update_product"

PurchasesIn(d) ==
    {t \in 1..Len(d.transactions) : d.transactions[t].transaction_type = "purchase"}

\* C21: the step that commits a catalog edit (update_product) leaves, for
\* every purchase committed before it, the purchase's transaction items
\* (product name, unit price, quantity, line total), its ledger row, its
\* prep-queue entries and the balance of its account as they were.
C21_CatalogEditLeavesPurchases ==
    [][\A p \in Procs :
          CommitsProductUpdate(p) =>
             /\ PurchasesIn(db') = PurchasesIn(db)
             /\ \A t \in PurchasesIn(db) :
                   /\ ItemsOf(db', t) = ItemsOf(db, t)
                   /\ db'.transactions[t] = db.transactions[t]
                   /\ PrepOf(db', t) = PrepOf(db, t)
                   /\ calculate_account_balance(db', db.transactions[t].account_id)
                        = calculate_account_balance(db, db.transactions[t].account_id)]_vars

\* the burger was sold at 3 and queued for the kitchen, then renamed and
\* repriced in the catalog; the sale still reads burger at 3, -7 in all
C21_Witness ==
    /\ db.products[1].name = "cheeseburger" /\ db.products[1].price = 5
    /\ ~db.products[1].requires_prep
    /\ \E t \in PurchasesIn(db) :
          /\ db.transactions[t].total_amount = -7
          /\ ItemsOf(db, t)[1].product_name = "burger"
          /\ ItemsOf(db, t)[1].unit_price = 3
          /\ ItemsOf(db, t)[1].line_total = 3
          /\ Len(PrepOf(db, t)) = 1
          /\ calculate_account_balance(db, 1) = -7

(***************************************************************************)
(* Refunds beside the kitchen                                              *)
(***************************************************************************)
\* the kitchen's opening order (transaction 1, account 2) can be refunded
\* from its own account or from account 1; a payment with a note of its
\* own (transaction 2 when it comes first) can be refunded too; the kitchen
\* completes the first entry of the order
RefundRequests ==
    { [Txn(2, "payment", << >>, 10, NoId) EXCEPT !.notes = <<[text |-> "cash"]>>],
      Txn(2, "adjustment", << >>, 9, 1),
      Txn(2, "adjustment", << >>, -10, 2),
      Txn(1, "adjustment", << >>, 9, 1) }

RefundCompletions ==
    { [kind |-> "complete_prep_item", item_id |-> 1, completed_by |-> "ann"] }

NextRefund ==
    \E p \in Procs :
        \/ \E d \in RefundRequests : CT_Begin(p, d)
        \/ \E d \in RefundCompletions : CP_Begin(p, d)
        \/ CP_Update(p)
        \/ CP_Emit(p)
        \/ CT_CheckOriginal(p)
        \/ CT_InsertTransaction(p)
        \/ CT_MarkOriginal(p)
        \/ Commit(p)
        \/ CommitExclusive(p)
        \/ CT_NewBalance(p)
        \/ CT_Emit(p)
        \/ CT_Except(p)

SpecRefund == InitKitchen /\ [][NextRefund]_vars

\* the columns of a ledger row other than has_been_adjusted and notes
Fixed(row) ==
    [account_id |-> row.account_id, transaction_type |-> row.transaction_type,
     total_amount |-> row.total_amount, created_by |-> row.created_by,
     created_at |-> row.created_at]

CommitsAdjustmentOf(p, t) ==
    /\ pc[p] = "commit2" /\ pc'[p] # "commit2"
    /\ IsTxn(hist[cur[p]])
    /\ Data(p).transaction_type = "adjustment"
    /\ Data(p).original_transaction_id = t

\* C22: in every step of create_transaction and complete_prep_item, every
\* committed ledger row stays in the table with its account, type, amount,
\* creator and creation time; has_been_adjusted and notes are the only
\* columns of it that change, and only in the step that commits an
\* adjustment naming the row as its original.
C22_LedgerRowsAreFixed ==
    [][\A t \in 1..Len(db.transactions) :
          /\ t \in 1..Len(db'.transactions)
          /\ Fixed(db'.transactions[t]) = Fixed(db.transactions[t])
          /\ (\/ db'.transactions[t].has_been_adjusted # db.transactions[t].has_been_adjusted
              \/ db'.transactions[t].notes # db.transactions[t].notes)
                => \E p \in Procs : CommitsAdjustmentOf(p, t)]_vars

\* the order was refunded and its first entry completed: the row of the
\* order carries the flag and the reference, and still its amount of -9
C22_Witness ==
    /\ Len(db.transactions) = 2
    /\ db.transactions[1].has_been_adjusted
    /\ db.transactions[1].notes = <<[adjusted_by |-> 2]>>
    /\ db.transactions[1].total_amount = -9
    /\ db.transactions[1].account_id = 2
    /\ db.prep_queue[1].status = "completed"

\* C23: the step that commits an adjustment naming an existing transaction
\* T adds the adjustment's ledger row and, in the same step, sets
\* T.has_been_adjusted and makes T.notes the previous notes of T followed
\* by a reference to the id of that new row; the adjustment then reports
\* success with that id.
C23_AdjustmentMarksOriginal ==
    /\ [][\A p \in Procs : \A t \in 1..Len(db.transactions) :
             CommitsAdjustmentOf(p, t) =>
                LET id == Len(db.transactions) + 1
                IN /\ Len(db'.transactions) = id
                   /\ db'.transactions[id].request = cur[p]
                   /\ db'.transactions[id].transaction_type = "adjustment"
                   /\ db'.transactions[t].has_been_adjusted
                   /\ db'.transactions[t].notes =
                         Append(db.transactions[t].notes, [adjusted_by |-> id])]_vars
    /\ [](\A u \in 1..Len(hist) :
             LET e == hist[u]
             IN (/\ IsTxn(e) /\ e.status = 201
                 /\ e.data.transaction_type = "adjustment"
                 /\ e.data.original_transaction_id \in 1..Len(e.pre.transactions))
                => /\ db.transactions[e.data.original_transaction_id].has_been_adjusted
                   /\ \E k \in 1..Len(db.transactions[e.data.original_transaction_id].notes) :
                         db.transactions[e.data.original_transaction_id].notes[k]
                            = [adjusted_by |-> e.transaction_id])

\* the payment noted "cash" was refunded by transaction 3: its notes are
\* the old note followed by the reference
C23_Witness ==
    /\ Len(db.transactions) = 3
    /\ db.transactions[2].has_been_adjusted
    /\ db.transactions[2].notes = <<[text |-> "cash"], [adjusted_by |-> 3]>>
    /\ \E u \in 1..Len(hist) :
          /\ hist[u].status = 201 /\ hist[u].transaction_id = 3
          /\ hist[u].data.original_transaction_id = 2

\* C24: every create_transaction call of type payment that answers 201 has
\* committed exactly one ledger row, whose amount is the absolute value of
\* the requested total_amount, and every call of type adjustment that
\* answers 201 has committed exactly one row whose amount is the requested
\* total_amount with its sign; the response reports that amount.
C24_PaymentAbsAdjustmentSigned ==
    \A u \in 1..Len(hist) :
        LET e == hist[u]
            x == e.data.total_amount
        IN (IsTxn(e) /\ e.status = 201
               /\ e.data.transaction_type \in {"payment", "adjustment"})
           => /\ Cardinality(RowsOf(db.transactions, u)) = 1
              /\ \A k \in RowsOf(db.transactions, u) :
                    /\ k = e.transaction_id
                    /\ db.transactions[k].transaction_type = e.data.transaction_type
                    /\ db.transactions[k].total_amount = e.total_amount
                    /\ db.transactions[k].total_amount =
                          IF e.data.transaction_type = "adjustment" THEN x
                          ELSE IF x < 0 THEN 0 - x ELSE x

\* a payment requested as -5 is in the ledger as +5, an adjustment
\* requested as -3 as -3
C24_Witness ==
    \E u, v \in 1..Len(hist) :
        /\ hist[u].status = 201 /\ hist[u].data.transaction_type = "payment"
        /\ hist[u].data.total_amount = -5
        /\ db.transactions[hist[u].transaction_id].total_amount = 5
        /\ hist[v].status = 201 /\ hist[v].data.transaction_type = "adjustment"
        /\ hist[v].data.total_amount = -3
        /\ db.transactions[hist[v].transaction_id].total_amount = -3

(***************************************************************************)
(* Item payloads                                                           *)
(***************************************************************************)
\* items payloads TransactionSchema lets through: items is a list of
\* dictionaries of any content (TransactionItemSchema is applied nowhere),
\* so the list may be empty and a quantity may be zero or negative
ItemPayloads ==
    { Txn(1, "purchase", <<Item(2, 1, 2, "candy")>>, 0, NoId),
      Txn(1, "purchase", << >>, 0, NoId),
      Txn(1, "purchase", <<Item(2, 0, 2, "candy")>>, 0, NoId),
      Txn(1, "purchase", <<Item(2, -1, 2, "candy")>>, 0, NoId) }

NextItems ==
    \E p \in Procs :
        \/ \E d \in ItemPayloads : CT_Begin(p, d)
        \/ CT_CalcItem(p)
        \/ CT_InsertTransaction(p)
        \/ CT_AddLineItem(p)
        \/ Commit(p)
        \/ CommitExclusive(p)
        \/ CT_NewBalance(p)
        \/ CT_Emit(p)
        \/ CT_Except(p)

SpecItems == Init /\ [][NextItems]_vars

\* C25: every committed ledger row of type purchase has a negative amount.
C25_PurchaseAmountNegative ==
    \A t \in PurchasesIn(db) : db.transactions[t].total_amount < 0

\* C26: every committed adjustment that names an existing original
\* transaction is on the account of that original: no transaction carries
\* the adjusted flag or a reference because of an adjustment booked on
\* another account.
C26_RefundOnOriginalsAccount ==
    \A k \in 1..Len(db.transactions) :
        LET row == db.transactions[k]
        IN (row.transaction_type = "adjustment" /\ row.original \in 1..Len(db.transactions))
           => row.account_id = db.transactions[row.original].account_id

(***************************************************************************)
(* delete_account  (app.py 403-414)                                        *)
(***************************************************************************)
\* variant: the connection does not enforce foreign keys
ForeignKeyViolated_off(d, account_id) == FALSE

\* get_db line 76, PRAGMA foreign_keys = ON, and FOREIGN KEY (account_id)
\* REFERENCES accounts(id) of the transactions table: a DELETE of an
\* account that ledger rows refer to fails
ForeignKeyViolated(d, account_id) == HasRows(d.transactions, account_id)

\* DELETE FROM accounts WHERE id = ?  (no row: nothing changes)
DeleteAccount(d, account_id) ==
    [d EXCEPT !.accounts = [a \in DOMAIN @ \ {account_id} |-> @[a]]]

DA_Begin(p, account_id) ==
    /\ Dispatch(p)
    /\ Len(hist) < MaxReqs
    /\ hist' = Append(hist, NewEntry([kind |-> "delete_account",
                                      account_id |-> account_id]))
    /\ cur' = [cur EXCEPT ![p] = Len(hist) + 1]
    /\ loc' = [loc EXCEPT ![p] = [InitLoc EXCEPT !.after = "da_emit"]]
    /\ pc' = [pc EXCEPT ![p] = "da_delete"]
    /\ UNCHANGED <<db, lock, work, events, clock>>

\* line 408: the DELETE opens the implicit transaction and waits for the
\* RESERVED lock; sqlite3.IntegrityError leaves the handler, which has no
\* try block
DA_Delete(p) ==
    /\ pc[p] = "da_delete"
    /\ ~WriterElsewhere(p) /\ CanShared(p)
    /\ lock' = [lock EXCEPT ![p] = "RESERVED"]
    /\ IF ForeignKeyViolated(db, Data(p).account_id)
       THEN /\ work' = [work EXCEPT ![p] = db]
            /\ loc' = [loc EXCEPT ![p].error = "FOREIGN KEY constraint failed"]
            /\ pc' = [pc EXCEPT ![p] = "da_fail"]
       ELSE /\ work' = [work EXCEPT ![p] = DeleteAccount(db, Data(p).account_id)]
            /\ pc' = [pc EXCEPT ![p] = "commit"]
            /\ UNCHANGED loc
    /\ UNCHANGED <<db, cur, hist, events, clock>>

\* the exception reaches Flask, which answers 500; the connection goes out
\* of scope unclosed and its open transaction is rolled back
DA_Fail(p) ==
    /\ pc[p] = "da_fail"
    /\ lock' = [lock EXCEPT ![p] = "NONE"]
    /\ work' = [work EXCEPT ![p] = NoWork]
    /\ hist' = [hist EXCEPT ![cur[p]].status = 500,
                            ![cur[p]].error = loc[p].error]
    /\ pc' = [pc EXCEPT ![p] = "idle"]
    /\ cur' = [cur EXCEPT ![p] = 0]
    /\ loc' = [loc EXCEPT ![p] = InitLoc]
    /\ UNCHANGED <<db, events, clock>>

\* lines 412-414: socketio.emit('account_deleted') and the response
DA_Emit(p) ==
    /\ pc[p] = "da_emit"
    /\ events' = Append(events,
          [name |-> "account_deleted", account_id |-> Data(p).account_id,
           request |-> cur[p]])
    /\ hist' = [hist EXCEPT ![cur[p]].status = 200]
    /\ pc' = [pc EXCEPT ![p] = "idle"]
    /\ cur' = [cur EXCEPT ![p] = 0]
    /\ loc' = [loc EXCEPT ![p] = InitLoc]
    /\ UNCHANGED <<db, lock, work, clock>>

\* payments on both accounts racing with the deletion of either
DeleteRequests ==
    { Txn(1, "payment", << >>, 10, NoId),
      Txn(2, "payment", << >>, 4, NoId) }

NextDelete ==
    \E p \in Procs :
        \/ \E d \in DeleteRequests : CT_Begin(p, d)
        \/ \E a \in {1, 2} : DA_Begin(p, a)
        \/ DA_Delete(p)
        \/ DA_Fail(p)
        \/ DA_Emit(p)
        \/ CT_InsertTransaction(p)
        \/ Commit(p)
        \/ CommitExclusive(p)
        \/ CT_NewBalance(p)
        \/ CT_Emit(p)
        \/ CT_Except(p)

SpecDelete == Init /\ [][NextDelete]_vars

RECURSIVE SumBalances(_, _)
SumBalances(d, ids) ==
    IF ids = {} THEN 0
    ELSE LET a == CHOOSE x \in ids : TRUE
         IN calculate_account_balance(d, a) + SumBalances(d, ids \ {a})

RECURSIVE LedgerTotal(_, _)
LedgerTotal(rows, n) ==
    IF n = 0 THEN 0 ELSE LedgerTotal(rows, n - 1) + rows[n].total_amount

\* C27: in every state every ledger row refers to an account that exists,
\* and the balances of the existing accounts add up to the sum of all ledger
\* amounts; a step that removes an account removes one that no ledger row
\* refers to, before and after the step.
C27_NoOrphanTransactions ==
    /\ [](/\ \A k \in 1..Len(db.transactions) :
               db.transactions[k].account_id \in DOMAIN db.accounts
          /\ SumBalances(db, DOMAIN db.accounts)
                = LedgerTotal(db.transactions, Len(db.transactions)))
    /\ [][\A a \in DOMAIN db.accounts \ DOMAIN db'.accounts :
             /\ ~\E k \in 1..Len(db.transactions) : db.transactions[k].account_id = a
             /\ ~\E k \in 1..Len(db'.transactions) : db'.transactions[k].account_id = a]_vars

\* account 2, which had no transactions, was deleted; the deletion of
\* account 1 was refused because of its payment, which is still in the
\* ledger
C27_Witness ==
    /\ DOMAIN db.accounts = {1}
    /\ Len(db.transactions) = 1 /\ db.transactions[1].account_id = 1
    /\ \E u, v \in 1..Len(hist) :
          /\ hist[u].data.kind = "delete_account" /\ hist[u].data.account_id = 1
          /\ hist[u].status = 500
          /\ hist[v].data.kind = "delete_account" /\ hist[v].data.account_id = 2
          /\ hist[v].status = 200

(***************************************************************************)
(* get_summary_report  (app.py 1286-1360): a series of autocommit SELECTs  *)
(* on one connection, no BEGIN                                             *)
(***************************************************************************)
RECURSIVE SumWhere(_, _, _)
\* SELECT SUM(...) FROM transactions [WHERE transaction_type = ?] ... or 0
SumWhere(rows, types, absolute) ==
    IF rows = << >> THEN 0
    ELSE (IF Head(rows).transaction_type \in types
          THEN (IF absolute THEN Abs(Head(rows).total_amount)
                ELSE Head(rows).total_amount)
          ELSE 0)
         + SumWhere(Tail(rows), types, absolute)

AllTypes == {"purchase", "payment", "adjustment"}

NoReport ==
    [total_accounts |-> 0, total_prepaid |-> 0, total_spent |-> 0,
     total_remaining |-> 0, accounts_with_negative_balance |-> 0,
     total_negative_amount |-> 0, transaction_count |-> 0]

\* the entry of a report: the figures gathered so far, the account ids of
\* line 1326, and (bookkeeping) the ledger states the SELECTs have read
ReportEntry ==
    [data |-> [kind |-> "get_summary_report"], status |-> 0,
     report |-> NoReport, all_accounts |-> << >>, states |-> {}]

\* lines 1289-1294: SELECT COUNT(*) FROM accounts
SR_Begin(p) ==
    /\ Dispatch(p)
    /\ Len(hist) < MaxReqs
    /\ CanShared(p)
    /\ hist' = Append(hist,
          [ReportEntry EXCEPT !.report.total_accounts = Cardinality(DOMAIN db.accounts),
                              !.states = {db}])
    /\ cur' = [cur EXCEPT ![p] = Len(hist) + 1]
    /\ loc' = [loc EXCEPT ![p] = InitLoc]
    /\ pc' = [pc EXCEPT ![p] = "sr_payments"]
    /\ UNCHANGED <<db, lock, work, events, clock>>

\* one SELECT of the report: it reads the committed database
SR_Select(p, at, field, value, next) ==
    /\ pc[p] = at
    /\ CanShared(p)
    /\ hist' = [hist EXCEPT ![cur[p]].report[field] = value,
                            ![cur[p]].states = @ \cup {db}]
    /\ pc' = [pc EXCEPT ![p] = next]
    /\ UNCHANGED <<db, lock, work, cur, loc, events, clock>>

\* lines 1297-1304
SR_Payments(p) ==
    SR_Select(p, "sr_payments", "total_prepaid",
              SumWhere(db.transactions, {"payment"}, FALSE), "sr_purchases")

\* lines 1307-1314
SR_Purchases(p) ==
    SR_Select(p, "sr_purchases", "total_spent",
              SumWhere(db.transactions, {"purchase"}, TRUE), "sr_remaining")

\* lines 1317-1322
SR_Remaining(p) ==
    SR_Select(p, "sr_remaining", "total_remaining",
              SumWhere(db.transactions, AllTypes, FALSE), "sr_accounts")

\* lines 1325-1329: SELECT id FROM accounts
SR_Accounts(p) ==
    /\ pc[p] = "sr_accounts"
    /\ CanShared(p)
    /\ LET ids == OrderBy(DOMAIN db.accounts, [a \in DOMAIN db.accounts |-> a], FALSE)
       IN /\ hist' = [hist EXCEPT ![cur[p]].all_accounts = ids,
                                  ![cur[p]].states = @ \cup {db}]
          /\ pc' = [pc EXCEPT ![p] = IF ids = << >> THEN "sr_stats" ELSE "sr_balance"]
    /\ UNCHANGED <<db, lock, work, cur, loc, events, clock>>

\* lines 1331-1335: one calculate_account_balance per account
SR_Balance(p) ==
    /\ pc[p] = "sr_balance"
    /\ CanShared(p)
    /\ LET e == hist[cur[p]]
           balance == calculate_account_balance(db, e.all_accounts[loc[p].i])
       IN /\ hist' = [hist EXCEPT
                ![cur[p]].report.accounts_with_negative_balance =
                    IF balance < 0 THEN @ + 1 ELSE @,
                ![cur[p]].report.total_negative_amount =
                    IF balance < 0 THEN @ + balance ELSE @,
                ![cur[p]].states = @ \cup {db}]
          /\ IF loc[p].i < Len(e.all_accounts)
             THEN loc' = [loc EXCEPT ![p].i = @ + 1] /\ UNCHANGED pc
             ELSE loc' = [loc EXCEPT ![p].i = 1]
                  /\ pc' = [pc EXCEPT ![p] = "sr_stats"]
    /\ UNCHANGED <<db, lock, work, cur, events, clock>>

\* lines 1338-1360: SELECT COUNT(*) FROM transactions and the response
SR_Stats(p) ==
    /\ pc[p] = "sr_stats"
    /\ CanShared(p)
    /\ hist' = [hist EXCEPT ![cur[p]].report.transaction_count = Len(db.transactions),
                            ![cur[p]].states = @ \cup {db},
                            ![cur[p]].status = 200]
    /\ pc' = [pc EXCEPT ![p] = "idle"]
    /\ cur' = [cur EXCEPT ![p] = 0]
    /\ loc' = [loc EXCEPT ![p] = InitLoc]
    /\ UNCHANGED <<db, lock, work, events, clock>>

\* a payment, a charge and a purchase arriving while reports are computed
ReportRequests ==
    { Txn(1, "payment", << >>, 10, NoId),
      Txn(2, "adjustment", << >>, -3, NoId),
      Txn(2, "purchase", <<Item(2, 1, 2, "candy")>>, 0, NoId) }

NextReport ==
    \E p \in Procs :
        \/ \E d \in ReportRequests : CT_Begin(p, d)
        \/ SR_Begin(p)
        \/ SR_Payments(p)
        \/ SR_Purchases(p)
        \/ SR_Remaining(p)
        \/ SR_Accounts(p)
        \/ SR_Balance(p)
        \/ SR_Stats(p)
        \/ CT_CalcItem(p)
        \/ CT_InsertTransaction(p)
        \/ CT_AddLineItem(p)
        \/ Commit(p)
        \/ CommitExclusive(p)
        \/ CT_NewBalance(p)
        \/ CT_Emit(p)
        \/ CT_Except(p)

SpecReport == Init /\ [][NextReport]_vars

RECURSIVE SumNegative(_, _)
SumNegative(d, ids) ==
    IF ids = {} THEN 0
    ELSE LET a == CHOOSE x \in ids : TRUE
             b == LedgerSum(d.transactions, a)
         IN (IF b < 0 THEN b ELSE 0) + SumNegative(d, ids \ {a})

\* the figures of one ledger state
FiguresOf(d) ==
    LET rows == d.transactions
        Of(type) == {k \in 1..Len(rows) : rows[k].transaction_type = type}
        Total(S) == LedgerTotal([k \in 1..Len(rows) |->
                        IF k \in S THEN rows[k] ELSE [total_amount |-> 0]], Len(rows))
    IN [total_accounts |-> Cardinality(DOMAIN d.accounts),
        total_prepaid |-> Total(Of("payment")),
        total_spent |-> 0 - Total(Of("purchase")),
        total_remaining |-> Total(Of("payment")) + Total(Of("purchase"))
                              + Total(Of("adjustment")),
        accounts_with_negative_balance |->
            Cardinality({a \in DOMAIN d.accounts : LedgerSum(rows, a) < 0}),
        total_negative_amount |-> SumNegative(d, DOMAIN d.accounts),
        transaction_count |-> Len(rows)]

\* C28: the figures of every finished summary report are the figures of one
\* ledger state, one of the states the database was in while the report was
\* computed: total_remaining = total_prepaid - total_spent + adjustments,
\* and the negative-balance count and sum belong to that same state.
C28_ReportDescribesOneState ==
    \A u \in 1..Len(hist) :
        (hist[u].data.kind = "get_summary_report" /\ hist[u].status = 200)
        => \E d \in hist[u].states : hist[u].report = FiguresOf(d)

(***************************************************************************)
(* create_account (app.py 282-329) and create_account_pos (331-376)        *)
(***************************************************************************)
\* AccountSchema: account_name 1..100 characters, account_type one of two
AccountSchema(data) ==
    /\ data.account_name # ""
    /\ data.account_type \in {"family", "individual"}

RECURSIVE MaxOf(_)
MaxOf(nums) ==
    IF nums = {} THEN 0
    ELSE LET n == CHOOSE x \in nums : TRUE
             rest == MaxOf(nums \ {n})
         IN IF n > rest THEN n ELSE rest

\* lines 293-295: SELECT MAX(CAST(SUBSTR(account_number, 2) AS INTEGER))
\* FROM accounts WHERE account_number LIKE 'A%' ; (row['max_num'] or 0)
MaxNum(accounts) ==
    MaxOf({accounts[a].account_number.num :
              a \in {b \in DOMAIN accounts : accounts[b].account_number.prefix = "A"}})

\* variant: the account_number column is not declared UNIQUE
UniqueViolated_off(accounts, account_number) == FALSE

\* account_number TEXT UNIQUE NOT NULL
UniqueViolated(accounts, account_number) ==
    \E a \in DOMAIN accounts : accounts[a].account_number = account_number

\* lines 301-308: the INSERT; id INTEGER PRIMARY KEY AUTOINCREMENT
InsertAccount(d, account_number, account_name) ==
    LET account_id == d.sqlite_sequence.accounts + 1
    IN [d EXCEPT !.accounts = @ @@ (account_id :>
                     [account_number |-> account_number,
                      account_name |-> account_name]),
                 !.sqlite_sequence.accounts = account_id]

\* the entry of an account request: the response names the new account
AccountEntry(data) ==
    NewEntry(data) @@ [account_id |-> NoId, account_number |-> AccountNumber(0)]

\* lines 287-291 (336-340); kind is the route that was called
CA_Begin(p, data) ==
    /\ Dispatch(p)
    /\ Len(hist) < MaxReqs
    /\ IF ~AccountSchema(data)
       THEN /\ hist' = Append(hist, [AccountEntry(data) EXCEPT !.status = 400,
                                         !.error = "Validation failed"])
            /\ UNCHANGED <<pc, cur, loc>>
       ELSE /\ hist' = Append(hist, AccountEntry(data))
            /\ cur' = [cur EXCEPT ![p] = Len(hist) + 1]
            /\ loc' = [loc EXCEPT ![p] = [InitLoc EXCEPT !.after = "ca_emit"]]
            /\ pc' = [pc EXCEPT ![p] = "ca_max"]
    /\ UNCHANGED <<db, lock, work, events, clock>>

\* lines 293-296 (342-345): an autocommit SELECT; next_num is kept in
\* the entry
CA_Max(p) ==
    /\ pc[p] = "ca_max"
    /\ CanShared(p)
    /\ hist' = [hist EXCEPT ![cur[p]].account_number =
                    AccountNumber(MaxNum(db.accounts) + 1),
                            ![cur[p]].seen = db]
    /\ pc' = [pc EXCEPT ![p] = "ca_insert"]
    /\ UNCHANGED <<db, lock, work, cur, loc, events, clock>>

\* lines 301-308 (350-356): the INSERT opens the implicit transaction and
\* waits for the RESERVED lock
CA_Insert(p) ==
    /\ pc[p] = "ca_insert"
    /\ ~WriterElsewhere(p) /\ CanShared(p)
    /\ lock' = [lock EXCEPT ![p] = "RESERVED"]
    /\ LET e == hist[cur[p]]
       IN IF UniqueViolated(db.accounts, e.account_number)
          THEN /\ work' = [work EXCEPT ![p] = db]
               /\ loc' = [loc EXCEPT ![p].error =
                             "UNIQUE constraint failed: accounts.account_number"]
               /\ pc' = [pc EXCEPT ![p] = "ca_except"]
               /\ UNCHANGED hist
          ELSE /\ work' = [work EXCEPT ![p] =
                             InsertAccount(db, e.account_number, e.data.account_name)]
               /\ hist' = [hist EXCEPT ![cur[p]].account_id =
                             db.sqlite_sequence.accounts + 1]
               /\ pc' = [pc EXCEPT ![p] = "commit"]
               /\ UNCHANGED loc
    /\ UNCHANGED <<db, cur, events, clock>>

\* lines 313-323 (360-370): socketio.emit('account_created') and the 201
CA_Emit(p) ==
    /\ pc[p] = "ca_emit"
    /\ events' = Append(events,
          [name |-> "account_created", account_id |-> hist[cur[p]].account_id,
           account_number |-> hist[cur[p]].account_number, request |-> cur[p]])
    /\ hist' = [hist EXCEPT ![cur[p]].status = 201]
    /\ pc' = [pc EXCEPT ![p] = "idle"]
    /\ cur' = [cur EXCEPT ![p] = 0]
    /\ loc' = [loc EXCEPT ![p] = InitLoc]
    /\ UNCHANGED <<db, lock, work, clock>>

\* lines 325-329 (372-376): conn.rollback(), the 500 response, conn.close()
CA_Except(p) ==
    /\ pc[p] = "ca_except"
    /\ lock' = [lock EXCEPT ![p] = "NONE"]
    /\ work' = [work EXCEPT ![p] = NoWork]
    /\ hist' = [hist EXCEPT ![cur[p]].status = 500,
                            ![cur[p]].error = loc[p].error]
    /\ pc' = [pc EXCEPT ![p] = "idle"]
    /\ cur' = [cur EXCEPT ![p] = 0]
    /\ loc' = [loc EXCEPT ![p] = InitLoc]
    /\ UNCHANGED <<db, events, clock>>

AccountRequests ==
    { [kind |-> "create_account", account_name |-> "Smith", account_type |-> "family"],
      [kind |-> "create_account_pos", account_name |-> "Jones", account_type |-> "individual"],
      [kind |-> "create_account_pos", account_name |-> "", account_type |-> "individual"] }

NextAccounts ==
    \E p \in Procs :
        \/ \E d \in AccountRequests : CA_Begin(p, d)
        \/ CA_Max(p)
        \/ CA_Insert(p)
        \/ CA_Emit(p)
        \/ CA_Except(p)
        \/ Commit(p)
        \/ CommitExclusive(p)

SpecAccounts == Init /\ [][NextAccounts]_vars

IsCreateAccount(e) == e.data.kind \in {"create_account", "create_account_pos"}

\* C29: in every state the accounts in the database have pairwise distinct
\* account numbers, and every create_account or create_account_pos call
\* that answered 201 names an account that is in the database under the id
\* and number of the response, with the name of the request; no two
\* successful calls name the same account or the same number.
C29_AccountNumbersDistinct ==
    /\ \A a, b \in DOMAIN db.accounts :
          a # b => db.accounts[a].account_number # db.accounts[b].account_number
    /\ \A u \in 1..Len(hist) :
          (IsCreateAccount(hist[u]) /\ hist[u].status = 201)
          => /\ hist[u].account_id \in DOMAIN db.accounts
             /\ db.accounts[hist[u].account_id] =
                   [account_number |-> hist[u].account_number,
                    account_name |-> hist[u].data.account_name]
             /\ \A v \in 1..Len(hist) :
                   (v # u /\ IsCreateAccount(hist[v]) /\ hist[v].status = 201)
                   => /\ hist[v].account_id # hist[u].account_id
                      /\ hist[v].account_number # hist[u].account_number

\* two calls, one on each route, both read the maximum 2 and chose number
\* 3: one created account 3, the other was refused by the database
C29_Witness ==
    \E u, v \in 1..Len(hist) :
        /\ hist[u].data.kind = "create_account" /\ hist[v].data.kind = "create_account_pos"
        /\ hist[u].account_number = AccountNumber(3)
        /\ hist[v].account_number = AccountNumber(3)
        /\ {hist[u].status, hist[v].status} = {201, 500}
        /\ 3 \in DOMAIN db.accounts /\ 4 \notin DOMAIN db.accounts

(***************************************************************************)
(* update_user (app.py 1078-1145) and delete_user (1147-1183)              *)
(***************************************************************************)
\* UserSchema: a username and one of the three roles.  The handler reads
\* request.json itself, so is_active reaches it as sent: "True", "False",
\* "0" (the JSON number) or "None" when the field is absent
UserSchema(data) ==
    /\ data.username # ""
    /\ data.role \in {"admin", "pos", "prep"}

\* line 1108: user['username'] == 'admin' and is_active is False
DeactivatesAdmin(user_id, user, is_active) ==
    user.username = "admin" /\ is_active = "False"

\* lines 1122-1137: UPDATE users SET username, role [, is_active] WHERE id = ?
\* (is_active is written when it is not None, as 1 if is_active else 0;
\* full_name and password_hash are left out)
UpdateUser(d, user_id, data) ==
    IF user_id \in DOMAIN d.users
    THEN [d EXCEPT !.users[user_id] =
             [username |-> data.username, role |-> data.role,
              is_active |-> IF data.is_active = "None" THEN @.is_active
                            ELSE data.is_active = "True"]]
    ELSE d

\* DELETE FROM users WHERE id = ?
DeleteUser(d, user_id) ==
    [d EXCEPT !.users = [a \in DOMAIN @ \ {user_id} |-> @[a]]]

U_Begin(p, data, first) ==
    /\ Dispatch(p)
    /\ Len(hist) < MaxReqs
    /\ hist' = Append(hist, NewEntry(data))
    /\ cur' = [cur EXCEPT ![p] = Len(hist) + 1]
    /\ loc' = [loc EXCEPT ![p] = [InitLoc EXCEPT !.after = "u_done"]]
    /\ pc' = [pc EXCEPT ![p] = first]
    /\ UNCHANGED <<db, lock, work, events, clock>>

\* a response sent before anything was written: conn.close() and return
U_Return(p, status, error) ==
    /\ hist' = [hist EXCEPT ![cur[p]].status = status, ![cur[p]].error = error]
    /\ pc' = [pc EXCEPT ![p] = "idle"]
    /\ cur' = [cur EXCEPT ![p] = 0]
    /\ loc' = [loc EXCEPT ![p] = InitLoc]

\* lines 1084-1098
UU_Begin(p, data) ==
    /\ UserSchema(data)
    /\ U_Begin(p, data, "uu_select")

\* lines 1101-1113: SELECT id, username FROM users WHERE id = ?
UU_Select(p) ==
    /\ pc[p] = "uu_select"
    /\ CanShared(p)
    /\ LET data == Data(p)
       IN IF data.user_id \notin DOMAIN db.users
          THEN U_Return(p, 404, "User not found")
          ELSE IF DeactivatesAdmin(data.user_id, db.users[data.user_id], data.is_active)
          THEN U_Return(p, 400, "Cannot deactivate admin user")
          ELSE /\ pc' = [pc EXCEPT ![p] =
                           IF data.username # db.users[data.user_id].username
                           THEN "uu_conflict" ELSE "uu_update"]
               /\ UNCHANGED <<hist, cur, loc>>
    /\ UNCHANGED <<db, lock, work, events, clock>>

\* lines 1114-1117: SELECT id FROM users WHERE username = ? AND id != ?
UU_Conflict(p) ==
    /\ pc[p] = "uu_conflict"
    /\ CanShared(p)
    /\ IF \E a \in DOMAIN db.users \ {Data(p).user_id} :
             db.users[a].username = Data(p).username
       THEN U_Return(p, 400, "Username already exists")
       ELSE pc' = [pc EXCEPT ![p] = "uu_update"] /\ UNCHANGED <<hist, cur, loc>>
    /\ UNCHANGED <<db, lock, work, events, clock>>

\* lines 1120-1137: the UPDATE opens the implicit transaction and waits for
\* the RESERVED lock; username TEXT UNIQUE NOT NULL
UU_Update(p) ==
    /\ pc[p] = "uu_update"
    /\ ~WriterElsewhere(p) /\ CanShared(p)
    /\ lock' = [lock EXCEPT ![p] = "RESERVED"]
    /\ LET data == Data(p)
       IN IF /\ data.user_id \in DOMAIN db.users
             /\ \E a \in DOMAIN db.users \ {data.user_id} :
                   db.users[a].username = data.username
          THEN /\ work' = [work EXCEPT ![p] = db]
               /\ loc' = [loc EXCEPT ![p].error = "UNIQUE constraint failed: users.username"]
               /\ pc' = [pc EXCEPT ![p] = "u_except"]
          ELSE /\ work' = [work EXCEPT ![p] = UpdateUser(db, data.user_id, data)]
               /\ pc' = [pc EXCEPT ![p] = "commit"]
               /\ UNCHANGED loc
    /\ UNCHANGED <<db, cur, hist, events, clock>>

\* lines 1139-1142 and 1177-1180: conn.close() and the response
U_Done(p) ==
    /\ pc[p] = "u_done"
    /\ U_Return(p, 200, "")
    /\ UNCHANGED <<db, lock, work, events, clock>>

\* lines 1143-1145 and 1181-1183: conn.close() drops the open transaction
U_Except(p) ==
    /\ pc[p] = "u_except"
    /\ lock' = [lock EXCEPT ![p] = "NONE"]
    /\ work' = [work EXCEPT ![p] = NoWork]
    /\ U_Return(p, 500, loc[p].error)
    /\ UNCHANGED <<db, events, clock>>

\* line 1152
DU_Begin(p, data) == U_Begin(p, data, "du_select")

\* lines 1155-1164: SELECT username FROM users WHERE id = ?
DU_Select(p) ==
    /\ pc[p] = "du_select"
    /\ CanShared(p)
    /\ IF Data(p).user_id \notin DOMAIN db.users
       THEN U_Return(p, 404, "User not found")
       ELSE IF db.users[Data(p).user_id].username = "admin"
       THEN U_Return(p, 400, "Cannot delete admin user")
       ELSE pc' = [pc EXCEPT ![p] = "du_count"] /\ UNCHANGED <<hist, cur, loc>>
    /\ UNCHANGED <<db, lock, work, events, clock>>

\* lines 1167-1173: SELECT COUNT(*) FROM transactions WHERE created_by = ?
DU_Count(p) ==
    /\ pc[p] = "du_count"
    /\ CanShared(p)
    /\ IF \E k \in 1..Len(db.transactions) :
             db.transactions[k].created_by = Data(p).user_id
       THEN U_Return(p, 400, "Cannot delete user")
       ELSE pc' = [pc EXCEPT ![p] = "du_delete"] /\ UNCHANGED <<hist, cur, loc>>
    /\ UNCHANGED <<db, lock, work, events, clock>>

\* lines 1175-1177: the DELETE; transactions.created_by REFERENCES users(id)
DU_Delete(p) ==
    /\ pc[p] = "du_delete"
    /\ ~WriterElsewhere(p) /\ CanShared(p)
    /\ lock' = [lock EXCEPT ![p] = "RESERVED"]
    /\ IF \E k \in 1..Len(db.transactions) :
             db.transactions[k].created_by = Data(p).user_id
       THEN /\ work' = [work EXCEPT ![p] = db]
            /\ loc' = [loc EXCEPT ![p].error = "FOREIGN KEY constraint failed"]
            /\ pc' = [pc EXCEPT ![p] = "u_except"]
       ELSE /\ work' = [work EXCEPT ![p] = DeleteUser(db, Data(p).user_id)]
            /\ pc' = [pc EXCEPT ![p] = "commit"]
            /\ UNCHANGED loc
    /\ UNCHANGED <<db, cur, hist, events, clock>>

UserUpdate(user_id, username, role, is_active) ==
    [kind |-> "update_user", user_id |-> user_id, username |-> username,
     role |-> role, is_active |-> is_active]

\* edits of the admin user (a deactivation sent as false, one sent as 0, a
\* rename), the same rename of the pos user, and deletions
UserUpdates ==
    { UserUpdate(1, "admin", "admin", "False"),
      UserUpdate(1, "admin", "admin", "0"),
      UserUpdate(1, "root", "admin", "None"),
      UserUpdate(2, "root", "pos", "None") }

UserDeletes ==
    { [kind |-> "delete_user", user_id |-> 1],
      [kind |-> "delete_user", user_id |-> 3] }

NextUsers ==
    \E p \in Procs :
        \/ \E d \in UserUpdates : UU_Begin(p, d)
        \/ \E d \in UserDeletes : DU_Begin(p, d)
        \/ UU_Select(p)
        \/ UU_Conflict(p)
        \/ UU_Update(p)
        \/ DU_Select(p)
        \/ DU_Count(p)
        \/ DU_Delete(p)
        \/ U_Done(p)
        \/ U_Except(p)
        \/ Commit(p)
        \/ CommitExclusive(p)

SpecUsers == Init /\ [][NextUsers]_vars

\* C30: in every state the user row that was created as 'admin' (id 1)
\* exists and is active.
C30_AdminExistsAndActive ==
    /\ 1 \in DOMAIN db.users
    /\ db.users[1].is_active

====
